---- MODULE Spec2Model ----
(***************************************************************************)
(* dmosh-export-service: the queue-based job scheduler of src/src/jobs.js  *)
(* (createJob / startRenderJob / scheduleNext / pruneOldJobs), the start   *)
(* pipeline's pure helpers, and the status / download routes; the upload   *)
(* route of src/src/mediaRoutes.js; the runExport adapter of               *)
(* src/src/ffmpegRunner.js.                                                *)
(*                                                                         *)
(* Conventions.  A JavaScript value that may be undefined/null is a tuple: *)
(* << >> is "absent", <<v>> is "present with value v".  Text (hashes, file *)
(* names, extensions) is a tuple of one-character strings, so that         *)
(* concatenation, basename and character replacement are computed and not  *)
(* assumed.  A path under MEDIA_ROOT is the file name below that root; an  *)
(* output path under TMP_DIR is keyed by the job id that names the file.   *)
(***************************************************************************)
EXTENDS Integers, Sequences, FiniteSets, TLC

VARIABLES
  job,          \* the job objects ever created, by id (1..Len(job)); an object
                \* outlives its JOBS entry because closures keep a reference
  JOBS,         \* ids that currently have an entry in the JOBS map
  RUNNING_JOBS, \* the RUNNING_JOBS set
  QUEUE,        \* the QUEUE array (entries {jobId, project, settings}, by id)
  immediates,   \* setImmediate callbacks not yet run, in order
  phase,        \* event-loop phase: "poll" (I/O callbacks) or "check" (immediates)
  command,      \* per job: state of its ffmpeg command
  files,        \* job ids whose output file exists in TMP_DIR
  call,         \* a direct call of one of the module's functions: name and arguments
  ret,          \* what that call returned, << >> while it has not returned
  media,        \* the files of MEDIA_ROOT: file name -> size in bytes
  uploads,      \* the POST /media/upload requests received, in order of arrival
  render,       \* runExport's job and the state of its encode
  debug,        \* the debug array of one job
  counter       \* the scheduler that counts its renders: records, activeRenders

vars == <<job, JOBS, RUNNING_JOBS, QUEUE, immediates, phase, command, files,
          call, ret, media, uploads, render, debug, counter>>

\* ------------------------------------------------------------------ bounds
\* jobs submitted in a run
MaxJobs == 4
\* submissions handled in one poll phase, before the check phase runs
MaxBurst == 2
\* progress up to which a callback without a percentage is delivered
MaxBlind == 1
\* jobs submitted in a run that is checked under fairness
MaxLiveJobs == 2
\* jobs submitted in a run that draws every request body
MaxPipeJobs == 3
\* jobs submitted in a run that draws the finer progress percentages
MaxProgressJobs == 3
\* uploads received in a run
MaxUploads == 2

\* ------------------------------------------------- configuration (jobs.js)
\* Both limits are read from the environment; the deployment modelled here
\* sets MAX_QUEUE_LENGTH=2 and leaves MAX_CONCURRENT_JOBS at its default.
MAX_CONCURRENT_JOBS == 1
MAX_QUEUE_LENGTH == 2
MAX_AGE_MS == 60 * 60 * 1000
\* the maxima of the stub renderer's deriveRenderParams
MAX_WIDTH == 1920
MAX_HEIGHT == 1080
MAX_FPS == 60
SOFT_MAX_WIDTH == 3840
SOFT_MAX_HEIGHT == 2160
SOFT_MAX_DURATION_SECONDS == 10 * 60
EXTREME_MAX_DIMENSION == 8192
EXTREME_MAX_DURATION_SECONDS == 60 * 60

\* Time.  createdAt is only ever read as Date.now() - Date.parse(createdAt),
\* and that difference only compared with MAX_AGE_MS, so a record carries its
\* age (milliseconds since createJob made it) and ages above MAX_AGE_MS are not
\* told apart.  The clock advances in steps of one hour: a record is exactly
\* MAX_AGE_MS old after one step and older after two.
TickMs == MAX_AGE_MS
Expired == MAX_AGE_MS + 1

\* ------------------------------------------------------------ small helpers
Max2(a, b) == IF a >= b THEN a ELSE b
Min2(a, b) == IF a <= b THEN a ELSE b
Some(o) == o /= << >>
Val(o) == o[1]
\* x ?? d
OrElse(o, d) == IF Some(o) THEN Val(o) ELSE d
Range(s) == {s[i] : i \in DOMAIN s}
\* Array.prototype.find: the first element satisfying P, as an optional
Find(s, P(_)) ==
  LET hits == {i \in DOMAIN s : P(s[i])}
  IN IF hits = {} THEN << >>
     ELSE <<s[CHOOSE i \in hits : \A k \in hits : i <= k]>>

\* Math.round(n / d) for d > 0: floor(n/d + 1/2)
RoundDiv(n, d) == (2 * n + d) \div (2 * d)

\* ------------------------------------------------------------------- text
DOT == "."
SafeChars ==
  {"a","b","c","d","e","f","g","h","i","j","k","l","m","n","o","p","q","r",
   "s","t","u","v","w","x","y","z","0","1","2","3","4","5","6","7","8","9",
   "_",".","-"}

\* path.basename: trailing "/" are ignored, then what follows the last "/"
basename(name) ==
  LET nonSlash == {i \in DOMAIN name : name[i] /= "/"}
      end == IF nonSlash = {} THEN 0
             ELSE CHOOSE i \in nonSlash : \A k \in nonSlash : k <= i
      slashes == {i \in 1..end : name[i] = "/"}
      last == IF slashes = {} THEN 0
              ELSE CHOOSE i \in slashes : \A k \in slashes : k <= i
  IN SubSeq(name, last + 1, end)

\* jobs.js safeBaseName: null for a falsy name, else the basename with every
\* character outside [a-zA-Z0-9_.-] replaced by "_"
safeBaseName(name) ==
  IF name = << >> THEN << >>
  ELSE LET b == basename(name)
       IN <<[i \in DOMAIN b |-> IF b[i] \in SafeChars THEN b[i] ELSE "_"]>>

\* path.join(MEDIA_ROOT, x): the file name below the root; joining the empty
\* string gives the root directory itself, named here by the empty tuple
getMediaCandidatePaths(hash, originalName, container) ==
  LET safeName == safeBaseName(originalName)
      base == hash
      preferredExts ==
        (IF container /= << >> THEN <<container>> ELSE << >>)
          \o << <<"m","p","4">>, <<"m","o","v">>, <<"m","k","v">>, <<"w","e","b","m">> >>
      hashed == IF hash /= << >>
                THEN [i \in DOMAIN preferredExts |-> base \o <<DOT>> \o preferredExts[i]]
                       \o <<base>>
                ELSE << >>
      named == IF Some(safeName) /\ Val(safeName) /= << >>
               THEN <<Val(safeName)>> ELSE << >>
  IN hashed \o named

\* mutant of resolveMediaPathForSource: the size of the file is not looked at
resolveMediaPathForSource_noSize(disk, sourceRef, container) ==
  IF ~Some(sourceRef) THEN << >>
  ELSE LET hash == Val(sourceRef).hash
           originalName == Val(sourceRef).originalName
       IN IF hash = << >> /\ originalName = << >> THEN << >>
          ELSE Find(getMediaCandidatePaths(hash, originalName, container),
                    LAMBDA c : c \in DOMAIN disk)

\* disk: the files of MEDIA_ROOT, a function from file name to size in bytes
\* fs.existsSync(candidate) && fs.statSync(candidate).size > 0
resolveMediaPathForSource(disk, sourceRef, container) ==
  IF ~Some(sourceRef) THEN << >>
  ELSE LET hash == Val(sourceRef).hash
           originalName == Val(sourceRef).originalName
       IN IF hash = << >> /\ originalName = << >> THEN << >>
          ELSE Find(getMediaCandidatePaths(hash, originalName, container),
                    LAMBDA c : c \in DOMAIN disk /\ disk[c] > 0)

\* ------------------------------------------------- project and settings
\* project:  [sources : Seq([id, hash, originalName, durationFrames]),
\*            clips : Seq([id, sourceId, startFrame, endFrame, timelineStartFrame]),
\*            tfps, width, height, sfps : optional integers]
\*           (timeline.fps, settings.width, settings.height, settings.fps)
\* settings: [container : text, source : optional selector,
\*            outputResolution, fpsMode : strings,
\*            width, height, fps : optional integers,
\*            renderResolutionScale : optional [n, d] meaning n / d]
\* selector: [kind, sourceId, clipId : strings ("" is absent),
\*            inFrame, outFrame : optional integers]
TimelineSelector ==
  [kind |-> "timeline", sourceId |-> "", clipId |-> "", inFrame |-> << >>, outFrame |-> << >>]

\* settings.source || { kind: 'timeline' }
sourceRefOf(settings) == OrElse(settings.source, TimelineSelector)

\* clips.map((c) => c.sourceId).filter(Boolean), as a Set
clipSourceIds(clips) == {clips[i].sourceId : i \in DOMAIN clips} \ {""}

resolvePrimarySource(project, settings) ==
  LET sourceRef == sourceRefOf(settings)
      sources == project.sources
      clips == project.clips
  IN IF sourceRef.kind = "source" /\ sourceRef.sourceId /= ""
     THEN Find(sources, LAMBDA s : s.id = sourceRef.sourceId)
     ELSE IF sourceRef.kind = "clip" /\ sourceRef.clipId /= ""
     THEN LET clip == Find(clips, LAMBDA c : c.id = sourceRef.clipId)
          IN IF ~Some(clip) THEN << >>
             ELSE Find(sources, LAMBDA s : s.id = Val(clip).sourceId)
     ELSE IF Len(clips) = 0 THEN << >>
     ELSE LET sourceIds == clipSourceIds(clips)
          IN IF Cardinality(sourceIds) /= 1 THEN << >>
             ELSE Find(sources, LAMBDA s : s.id \in sourceIds)

\* [...clips].sort by timelineStartFrame (the sort is stable)
RECURSIVE sortByTimelineStart(_)
sortByTimelineStart(clips) ==
  IF clips = << >> THEN << >>
  ELSE LET n == Len(clips)
           c == clips[n]
           pre == sortByTimelineStart(SubSeq(clips, 1, n - 1))
           k == Cardinality({i \in DOMAIN pre :
                               pre[i].timelineStartFrame <= c.timelineStartFrame})
       IN SubSeq(pre, 1, k) \o <<c>> \o SubSeq(pre, k + 1, Len(pre))

\* mutant of isSimpleTimeline: the count of distinct source ids is not tested
isSimpleTimeline_noCount(project, settings) ==
  LET sourceRef == sourceRefOf(settings)
      clips == project.clips
      sorted == sortByTimelineStart(clips)
  IN IF sourceRef.kind /= "timeline" THEN TRUE
     ELSE IF Len(clips) = 0 THEN TRUE
     ELSE \A i \in 2..Len(sorted) :
            LET prev == sorted[i - 1]
                prevEnd == prev.timelineStartFrame + (prev.endFrame - prev.startFrame)
            IN ~(sorted[i].timelineStartFrame < prevEnd)

isSimpleTimeline(project, settings) ==
  LET sourceRef == sourceRefOf(settings)
      clips == project.clips
      sorted == sortByTimelineStart(clips)
  IN IF sourceRef.kind /= "timeline" THEN TRUE
     ELSE IF Len(clips) = 0 THEN TRUE
     ELSE IF Cardinality(clipSourceIds(clips)) /= 1 THEN FALSE
     ELSE \A i \in 2..Len(sorted) :
            LET prev == sorted[i - 1]
                prevEnd == prev.timelineStartFrame + (prev.endFrame - prev.startFrame)
            IN ~(sorted[i].timelineStartFrame < prevEnd)

\* project?.timeline?.fps ?? project?.settings?.fps ?? 24
projectFpsOf(project) == OrElse(project.tfps, OrElse(project.sfps, 24))

\* (frames) => Math.max(1, frames || 0)
\* mutant of ensureMinFrames: the floor is zero
ensureMinFrames_zero(frames) == Max2(0, frames)

ensureMinFrames(frames) == Max2(1, frames)

SetMin(S) == CHOOSE x \in S : \A y \in S : x <= y
SetMax(S) == CHOOSE x \in S : \A y \in S : y <= x

\* mutant of computeDurationFrames: an explicit range is counted exclusively
computeDurationFrames_exclusive(project, settings) ==
  LET source == sourceRefOf(settings)
      fallback == ensureMinFrames(projectFpsOf(project))
  IN IF source.kind = "timeline" /\ Some(source.inFrame) /\ Some(source.outFrame)
     THEN ensureMinFrames(Val(source.outFrame) - Val(source.inFrame))
     ELSE fallback

\* mutant of computeDurationFrames: the span of the first clip, not of all
computeDurationFrames_firstClip(project, settings) ==
  LET source == sourceRefOf(settings)
      clips == project.clips
      byKind ==
        IF source.kind = "timeline"
        THEN IF Some(source.inFrame) /\ Some(source.outFrame)
             THEN <<ensureMinFrames(Val(source.outFrame) - Val(source.inFrame) + 1)>>
             ELSE IF Len(clips) > 0
             THEN <<ensureMinFrames(clips[1].endFrame - clips[1].startFrame + 1)>>
             ELSE <<ensureMinFrames(projectFpsOf(project))>>
        ELSE IF source.kind = "clip" /\ source.clipId /= ""
        THEN LET clip == Find(clips, LAMBDA c : c.id = source.clipId)
             IN IF Some(clip)
                THEN <<ensureMinFrames(Val(clip).endFrame - Val(clip).startFrame + 1)>>
                ELSE << >>
        ELSE IF source.kind = "source" /\ source.sourceId /= ""
        THEN LET src == Find(project.sources, LAMBDA s : s.id = source.sourceId)
             IN IF Some(src) /\ Val(src).durationFrames /= 0
                THEN <<ensureMinFrames(Val(src).durationFrames)>>
                ELSE << >>
        ELSE << >>
  IN IF Some(byKind) THEN Val(byKind)
     ELSE ensureMinFrames(projectFpsOf(project))

computeDurationFrames(project, settings) ==
  LET source == sourceRefOf(settings)
      clips == project.clips
      byKind ==
        IF source.kind = "timeline"
        THEN IF Some(source.inFrame) /\ Some(source.outFrame)
             THEN <<ensureMinFrames(Val(source.outFrame) - Val(source.inFrame) + 1)>>
             ELSE IF Len(clips) > 0
             THEN LET minStart == SetMin({clips[i].timelineStartFrame : i \in DOMAIN clips})
                      maxEnd == SetMax({clips[i].timelineStartFrame
                                          + (clips[i].endFrame - clips[i].startFrame) :
                                        i \in DOMAIN clips})
                  IN <<ensureMinFrames(maxEnd - minStart + 1)>>
             ELSE <<ensureMinFrames(projectFpsOf(project))>>
        ELSE IF source.kind = "clip" /\ source.clipId /= ""
        THEN LET clip == Find(clips, LAMBDA c : c.id = source.clipId)
             IN IF Some(clip)
                THEN <<ensureMinFrames(Val(clip).endFrame - Val(clip).startFrame + 1)>>
                ELSE << >>
        ELSE IF source.kind = "source" /\ source.sourceId /= ""
        THEN LET src == Find(project.sources, LAMBDA s : s.id = source.sourceId)
             IN IF Some(src) /\ Val(src).durationFrames /= 0
                THEN <<ensureMinFrames(Val(src).durationFrames)>>
                ELSE << >>
        ELSE << >>
  IN IF Some(byKind) THEN Val(byKind)
     ELSE ensureMinFrames(projectFpsOf(project))

\* mutant of deriveRenderParams: width and height are not raised to 16
deriveRenderParams_noMin(project, settings) ==
  LET projectWidth == OrElse(project.width, 640)
      projectHeight == OrElse(project.height, 360)
      custom == settings.outputResolution = "custom"
                  /\ Some(settings.width) /\ Val(settings.width) /= 0
                  /\ Some(settings.height) /\ Val(settings.height) /= 0
      w0 == IF custom THEN Val(settings.width) ELSE projectWidth
      h0 == IF custom THEN Val(settings.height) ELSE projectHeight
      scale == OrElse(settings.renderResolutionScale, [n |-> 1, d |-> 1])
      width == RoundDiv(w0 * scale.n, scale.d)
      height == RoundDiv(h0 * scale.n, scale.d)
      projectFps == projectFpsOf(project)
      fps1 == IF settings.fpsMode = "override" /\ Some(settings.fps) /\ Val(settings.fps) /= 0
              THEN Val(settings.fps) ELSE projectFps
      fps == IF fps1 <= 0 THEN 24 ELSE fps1
      durationFrames == computeDurationFrames(project, settings)
      durationSeconds == IF 10 * durationFrames < fps
                         THEN [num |-> 1, den |-> 10]
                         ELSE [num |-> durationFrames, den |-> fps]
  IN [width |-> width, height |-> height, fps |-> fps, durationSeconds |-> durationSeconds]

\* durationSeconds is the rational num / den, den > 0
deriveRenderParams(project, settings) ==
  LET projectWidth == OrElse(project.width, 640)
      projectHeight == OrElse(project.height, 360)
      custom == settings.outputResolution = "custom"
                  /\ Some(settings.width) /\ Val(settings.width) /= 0
                  /\ Some(settings.height) /\ Val(settings.height) /= 0
      w0 == IF custom THEN Val(settings.width) ELSE projectWidth
      h0 == IF custom THEN Val(settings.height) ELSE projectHeight
      scale == OrElse(settings.renderResolutionScale, [n |-> 1, d |-> 1])
      width == Max2(16, RoundDiv(w0 * scale.n, scale.d))
      height == Max2(16, RoundDiv(h0 * scale.n, scale.d))
      projectFps == projectFpsOf(project)
      fps1 == IF settings.fpsMode = "override" /\ Some(settings.fps) /\ Val(settings.fps) /= 0
              THEN Val(settings.fps) ELSE projectFps
      fps == IF fps1 <= 0 THEN 24 ELSE fps1
      durationFrames == computeDurationFrames(project, settings)
      \* Math.max(0.1, durationFrames / fps)
      durationSeconds == IF 10 * durationFrames < fps
                         THEN [num |-> 1, den |-> 10]
                         ELSE [num |-> durationFrames, den |-> fps]
  IN [width |-> width, height |-> height, fps |-> fps, durationSeconds |-> durationSeconds]

\* mutant of computeDurationSeconds: the result is not clamped
computeDurationSeconds_noClamp(settings) ==
  IF settings = << >> THEN [num |-> 5, den |-> 1]
  ELSE LET fps == IF Some(settings.fps) /\ Val(settings.fps) > 0 THEN Val(settings.fps) ELSE 24
           source == settings.source
           ranged == /\ Some(source)
                     /\ Some(Val(source).inFrame) /\ Some(Val(source).outFrame)
                     /\ Val(Val(source).outFrame) >= Val(Val(source).inFrame)
           frameCount == IF ranged
                         THEN Val(Val(source).outFrame) - Val(Val(source).inFrame) + 1
                         ELSE 0
       IN IF frameCount > 0 THEN [num |-> frameCount, den |-> fps]
          ELSE [num |-> 5, den |-> 1]

\* mutant of computeDurationSeconds: a reversed range is counted as it stands
computeDurationSeconds_noOrder(settings) ==
  IF settings = << >> THEN [num |-> 5, den |-> 1]
  ELSE LET fps == IF Some(settings.fps) /\ Val(settings.fps) > 0 THEN Val(settings.fps) ELSE 24
           source == settings.source
           ranged == /\ Some(source)
                     /\ Some(Val(source).inFrame) /\ Some(Val(source).outFrame)
           frameCount == IF ranged
                         THEN Val(Val(source).outFrame) - Val(Val(source).inFrame) + 1
                         ELSE 0
           raw == IF frameCount /= 0 THEN [num |-> frameCount, den |-> fps]
                  ELSE [num |-> 5, den |-> 1]
       IN IF raw.num > 60 * raw.den THEN [num |-> 60, den |-> 1] ELSE raw

\* ffmpegRunner.js computeDurationSeconds; null settings are the empty tuple,
\* the result is the rational num / den
computeDurationSeconds(settings) ==
  IF settings = << >> THEN [num |-> 5, den |-> 1]
  ELSE LET fps == IF Some(settings.fps) /\ Val(settings.fps) > 0 THEN Val(settings.fps) ELSE 24
           source == settings.source
           ranged == /\ Some(source)
                     /\ Some(Val(source).inFrame) /\ Some(Val(source).outFrame)
                     /\ Val(Val(source).outFrame) >= Val(Val(source).inFrame)
           \* frameCount stays null (here 0) without a usable range
           frameCount == IF ranged
                         THEN Val(Val(source).outFrame) - Val(Val(source).inFrame) + 1
                         ELSE 0
           raw == IF frameCount > 0 THEN [num |-> frameCount, den |-> fps]
                  ELSE [num |-> 5, den |-> 1]
           \* !Number.isFinite(durationSeconds) || durationSeconds <= 0
           positive == IF raw.num <= 0 THEN [num |-> 5, den |-> 1] ELSE raw
           \* Math.min(60, Math.max(0.5, durationSeconds))
       IN IF 2 * positive.num < positive.den THEN [num |-> 1, den |-> 2]
          ELSE IF positive.num > 60 * positive.den THEN [num |-> 60, den |-> 1]
          ELSE positive

\* safeSettings.container || 'mp4'
\* startRenderJob's test for a scale filter on the ffmpeg command
needsScale(project, settings) ==
  LET p == deriveRenderParams(project, settings)
      scale == settings.renderResolutionScale
  IN \/ settings.outputResolution = "custom"
     \/ project.width /= <<p.width>> \/ project.height /= <<p.height>>
     \* safeSettings.renderResolutionScale !== 1
     \/ ~(Some(scale) /\ Val(scale).n = Val(scale).d)

containerOf(settings) ==
  IF settings.container /= << >> THEN settings.container ELSE <<"m","p","4">>

\* mutant of startPipeline: the media check is skipped
startPipeline_noMediaCheck(disk, project, settings) ==
  LET p == deriveRenderParams(project, settings)
  IN IF ~isSimpleTimeline(project, settings) THEN "unsupported_timeline"
     ELSE IF p.width > EXTREME_MAX_DIMENSION \/ p.height > EXTREME_MAX_DIMENSION
             \/ p.durationSeconds.num > EXTREME_MAX_DURATION_SECONDS * p.durationSeconds.den
     THEN "job_too_large"
     ELSE "encode"

\* mutant of startPipeline: the soft limits are enforced as ceilings
startPipeline_softCeiling(disk, project, settings) ==
  LET container == containerOf(settings)
      primarySource == resolvePrimarySource(project, settings)
      inputPath == resolveMediaPathForSource(disk, primarySource, container)
      p == deriveRenderParams(project, settings)
  IN IF ~isSimpleTimeline(project, settings) THEN "unsupported_timeline"
     ELSE IF ~Some(primarySource) \/ ~Some(inputPath) THEN "media_missing"
     ELSE IF p.width > SOFT_MAX_WIDTH \/ p.height > SOFT_MAX_HEIGHT
             \/ p.durationSeconds.num > SOFT_MAX_DURATION_SECONDS * p.durationSeconds.den
     THEN "job_too_large"
     ELSE "encode"

\* mutant of startPipeline: the size check comes before the media check
startPipeline_sizeFirst(disk, project, settings) ==
  LET container == containerOf(settings)
      primarySource == resolvePrimarySource(project, settings)
      inputPath == resolveMediaPathForSource(disk, primarySource, container)
      p == deriveRenderParams(project, settings)
  IN IF ~isSimpleTimeline(project, settings) THEN "unsupported_timeline"
     ELSE IF p.width > EXTREME_MAX_DIMENSION \/ p.height > EXTREME_MAX_DIMENSION
             \/ p.durationSeconds.num > EXTREME_MAX_DURATION_SECONDS * p.durationSeconds.den
     THEN "job_too_large"
     ELSE IF ~Some(primarySource) \/ ~Some(inputPath) THEN "media_missing"
     ELSE "encode"

\* the outcome of startRenderJob's checks, in the order the code makes them:
\* "unsupported_timeline", "media_missing", "job_too_large", or "encode"
startPipeline(disk, project, settings) ==
  LET container == containerOf(settings)
      primarySource == resolvePrimarySource(project, settings)
      inputPath == resolveMediaPathForSource(disk, primarySource, container)
      p == deriveRenderParams(project, settings)
  IN IF ~isSimpleTimeline(project, settings) THEN "unsupported_timeline"
     ELSE IF ~Some(primarySource) \/ ~Some(inputPath) THEN "media_missing"
     ELSE IF p.width > EXTREME_MAX_DIMENSION \/ p.height > EXTREME_MAX_DIMENSION
             \/ p.durationSeconds.num > EXTREME_MAX_DURATION_SECONDS * p.durationSeconds.den
     THEN "job_too_large"
     ELSE "encode"

\* --------------------------------------------------- submitted requests
\* The media store holds one uploaded, non-empty file: h1.mp4.
MediaDisk == (<<"h","1",".","m","p","4">> :> 2048)

SourceA == [id |-> "s1", hash |-> <<"h","1">>,
            originalName |-> <<"a",".","m","o","v">>, durationFrames |-> 48]
SourceB == [id |-> "s2", hash |-> <<"h","2">>,
            originalName |-> <<"b",".","m","o","v">>, durationFrames |-> 24]
ClipA == [id |-> "c1", sourceId |-> "s1", startFrame |-> 0, endFrame |-> 47,
          timelineStartFrame |-> 0]
ClipB == [id |-> "c2", sourceId |-> "s2", startFrame |-> 0, endFrame |-> 23,
          timelineStartFrame |-> 48]
ProjectOne == [sources |-> <<SourceA, SourceB>>, clips |-> <<ClipA>>,
               tfps |-> <<24>>, width |-> <<640>>, height |-> <<360>>, sfps |-> << >>]
ProjectTwo == [ProjectOne EXCEPT !.clips = <<ClipA, ClipB>>]
SettingsPlain ==
  [container |-> <<"m","p","4">>, source |-> << >>, outputResolution |-> "project",
   fpsMode |-> "project", width |-> << >>, height |-> << >>, fps |-> << >>,
   renderResolutionScale |-> << >>]
SettingsClipB ==
  [SettingsPlain EXCEPT !.source = <<[TimelineSelector EXCEPT !.kind = "clip", !.clipId = "c2"]>>]
SettingsHuge == [SettingsPlain EXCEPT !.renderResolutionScale = <<[n |-> 20, d |-> 1]>>]

\* a second clip of source s1 that starts at timeline frame 10, while clip c1
\* still runs
ClipOver == [id |-> "c6", sourceId |-> "s1", startFrame |-> 0, endFrame |-> 23,
             timelineStartFrame |-> 10]
ProjectOverlap == [ProjectOne EXCEPT !.clips = <<ClipA, ClipOver>>]
\* a timeline without clips: no primary source
ProjectEmpty == [ProjectOne EXCEPT !.clips = << >>]
\* clip c2 (source s2, no file) at twenty times the size
SettingsClipBHuge == [SettingsClipB EXCEPT !.renderResolutionScale = <<[n |-> 20, d |-> 1]>>]
\* frames 0..86400 at 24 fps: one frame more than an hour
SettingsLong ==
  [SettingsPlain EXCEPT
     !.source = <<[TimelineSelector EXCEPT !.inFrame = <<0>>, !.outFrame = <<86400>>]>>]
\* 4480x2520 for exactly one hour: above the soft limits, not above the hard ones
SettingsSoft ==
  [SettingsPlain EXCEPT
     !.renderResolutionScale = <<[n |-> 7, d |-> 1]>>,
     !.source = <<[TimelineSelector EXCEPT !.inFrame = <<0>>, !.outFrame = <<86399>>]>>]
\* one pixel wider than the hard limit
SettingsWide ==
  [SettingsPlain EXCEPT !.outputResolution = "custom", !.width = <<8193>>, !.height = <<16>>]

\* request bodies a client may submit: one that encodes, and one for each
\* short-circuit of the start pipeline; from the fifth on, bodies that fail
\* several checks, or come close to failing one
Inputs ==
  << [project |-> ProjectOne, settings |-> SettingsPlain],
     [project |-> ProjectTwo, settings |-> SettingsPlain],
     [project |-> ProjectTwo, settings |-> SettingsClipB],
     [project |-> ProjectOne, settings |-> SettingsHuge],
     [project |-> ProjectTwo, settings |-> SettingsHuge],
     [project |-> ProjectTwo, settings |-> SettingsClipBHuge],
     [project |-> ProjectOne, settings |-> SettingsLong],
     [project |-> ProjectOne, settings |-> SettingsSoft],
     [project |-> ProjectEmpty, settings |-> SettingsPlain],
     [project |-> ProjectOne, settings |-> SettingsWide],
     [project |-> ProjectOverlap, settings |-> SettingsPlain] >>

\* the requests submitted to the scheduler under Spec: one that reaches the
\* encoder and one that is short-circuited
SchedInputs == {1, 2}

\* progress.percent values the encoder may report, in tenths of a percent
\* (-4.5 and 150); << >> is a callback without a percentage
PctValues == {<<-45>>, <<1500>>, << >>}
\* the one value reported in runs that are about the start of a job
PipePctValues == {<<1500>>}
\* a finer set: halves on both sides of zero, values in between, values
\* around 100 and far outside [0, 100]
FinePctValues ==
  {<< >>} \cup {<<t>> : t \in {-1000, -45, -5, -4, 0, 4, 5, 305, 704, 994, 995, 1000,
                               1004, 1500}}

\* ------------------------------------------------------------- job store
TerminalStatuses == {"complete", "failed", "cancelled"}

\* the state a handler works on
Store == [job |-> job, JOBS |-> JOBS, RUNNING_JOBS |-> RUNNING_JOBS,
          QUEUE |-> QUEUE, immediates |-> immediates, command |-> command,
          files |-> files]

Commit(S) ==
  /\ job' = S.job
  /\ JOBS' = S.JOBS
  /\ RUNNING_JOBS' = S.RUNNING_JOBS
  /\ QUEUE' = S.QUEUE
  /\ immediates' = S.immediates
  /\ command' = S.command
  /\ files' = S.files
  /\ UNCHANGED <<call, ret, media, uploads, render,
                 debug, counter>>

getJob(id) == IF id \in JOBS THEN <<job[id]>> ELSE << >>

\* GET /exports/:id, first variant: the URL is present when downloadPath is set
statusRoute(id) ==
  LET j == getJob(id)
  IN IF ~Some(j) THEN [code |-> 404, error |-> "not_found"]
     ELSE [code |-> 200, id |-> id, status |-> Val(j).status,
           progress |-> Val(j).progress, error |-> Val(j).error,
           downloadUrl |-> IF Some(Val(j).downloadPath) THEN <<id>> ELSE << >>]

\* GET /exports/:id, second variant: the URL is present when status is complete
statusRouteByStatus(id) ==
  LET j == getJob(id)
  IN IF ~Some(j) THEN [code |-> 404, error |-> "not_found"]
     ELSE [code |-> 200, id |-> id, status |-> Val(j).status,
           progress |-> Val(j).progress, error |-> Val(j).error,
           downloadUrl |-> IF Val(j).status = "complete" THEN <<id>> ELSE << >>]

\* mutant of downloadRoute: the status check is dropped
downloadRoute_noStatus(id) ==
  LET j == getJob(id)
  IN IF ~Some(j) \/ ~Some(Val(j).downloadPath)
        \/ Val(Val(j).downloadPath) \notin files
     THEN [code |-> 404, error |-> "not_found", file |-> << >>]
     ELSE [code |-> 200, error |-> "null", file |-> Val(j).downloadPath]

\* GET /exports/:id/download: the file served, or 404 not_found
downloadRoute(id) ==
  LET j == getJob(id)
  IN IF ~Some(j) \/ Val(j).status /= "complete" \/ ~Some(Val(j).downloadPath)
        \/ Val(Val(j).downloadPath) \notin files
     THEN [code |-> 404, error |-> "not_found", file |-> << >>]
     ELSE [code |-> 200, error |-> "null", file |-> Val(j).downloadPath]

\* jobs.js pruneOldJobs: every record older than MAX_AGE_MS goes, with its file
pruneOldJobs(S) ==
  LET old == {id \in S.JOBS : S.job[id].age > MAX_AGE_MS}
      unlinked == {id \in old : Some(S.job[id].downloadPath)}
  IN [S EXCEPT !.files = @ \ {Val(S.job[id].downloadPath) : id \in unlinked},
               !.JOBS = @ \ old]

RECURSIVE scheduleNext(_), startRenderJob(_, _)

\* mutant of scheduleNext: QUEUE.pop() instead of QUEUE.shift()
scheduleNext_lifo(S) ==
  IF Cardinality(S.RUNNING_JOBS) >= MAX_CONCURRENT_JOBS THEN S
  ELSE IF S.QUEUE = << >> THEN S
  ELSE LET next == S.QUEUE[Len(S.QUEUE)]
           S1 == [S EXCEPT !.QUEUE = SubSeq(@, 1, Len(@) - 1)]
       IN IF next \notin S1.JOBS THEN scheduleNext(S1)
          ELSE startRenderJob(S1, next)

scheduleNext(S) ==
  IF Cardinality(S.RUNNING_JOBS) >= MAX_CONCURRENT_JOBS THEN S
  ELSE IF S.QUEUE = << >> THEN S
  ELSE LET next == Head(S.QUEUE)
           S1 == [S EXCEPT !.QUEUE = Tail(@)]
       IN IF next \notin S1.JOBS THEN scheduleNext(S1)
          ELSE startRenderJob(S1, next)

\* mutant of failStart: a short-circuit failure does not call scheduleNext
failStart_noSchedule(S, id, code) ==
  pruneOldJobs(
    [S EXCEPT !.job[id].status = "failed",
              !.job[id].error = code,
              !.job[id].progress = IF code = "job_too_large" THEN @ ELSE 0,
              !.job[id].downloadPath = << >>,
              !.RUNNING_JOBS = @ \ {id}])

\* a short-circuit of startRenderJob: the job fails with the given code
failStart(S, id, code) ==
  scheduleNext(pruneOldJobs(
    [S EXCEPT !.job[id].status = "failed",
              !.job[id].error = code,
              !.job[id].progress = IF code = "job_too_large" THEN @ ELSE 0,
              !.job[id].downloadPath = << >>,
              !.RUNNING_JOBS = @ \ {id}]))

startRenderJob(S, id) ==
  LET in == Inputs[S.job[id].inp]
      S1 == [S EXCEPT !.RUNNING_JOBS = @ \cup {id},
                      !.job[id].status = "rendering",
                      !.job[id].progress = 0,
                      !.job[id].error = "null",
                      !.job[id].downloadPath = <<id>>,
                      !.files = @ \ {id}]
      outcome == startPipeline(MediaDisk, in.project, in.settings)
  IN IF outcome = "encode"
     THEN [S1 EXCEPT !.command[id] = "spawned"]
     ELSE failStart(S1, id, outcome)

\* ----------------------------------------------------------------- actions
\* the module has just been loaded: no job, nothing running, queued or pending
Loaded ==
  /\ job = << >>
  /\ JOBS = {}
  /\ RUNNING_JOBS = {}
  /\ QUEUE = << >>
  /\ immediates = << >>
  /\ phase = "poll"
  /\ command = << >>
  /\ files = {}

\* no function is called directly while the scheduler runs
NoCall == [fn |-> "none", project |-> ProjectOne, settings |-> SettingsPlain,
           disk |-> MediaDisk, sourceRef |-> << >>, container |-> << >>]

\* runExport has not been called
NoRender == [state |-> "idle", progress |-> 0, attempt |-> 0, codec |-> "none",
             container |-> "none", width |-> 0, height |-> 0, fps |-> 0,
             durationSeconds |-> [num |-> 0, den |-> 1]]

\* the media store as the scheduler finds it, no upload received, no export run
\* the counting scheduler before any submission
NoCounter == [jobs |-> << >>, present |-> {}, activeRenders |-> 0, immediates |-> 0]

Quiet ==
  /\ media = MediaDisk /\ uploads = << >> /\ render = NoRender
  /\ debug = << >> /\ counter = NoCounter

Init == Loaded /\ call = NoCall /\ ret = << >> /\ Quiet

\* mutant of createJob: the queue admits one entry too many
createJob_offByOne(S, i) ==
  LET id == Len(S.job) + 1
      fresh == [status |-> "queued", progress |-> 0, error |-> "null",
                downloadPath |-> << >>, age |-> 0, inp |-> i]
      S1 == [S EXCEPT !.job = Append(@, fresh),
                      !.JOBS = @ \cup {id},
                      !.command = Append(@, "none")]
  IN IF Cardinality(S1.RUNNING_JOBS) < MAX_CONCURRENT_JOBS
     THEN [S1 EXCEPT !.immediates = Append(@, id)]
     ELSE IF Len(S1.QUEUE) <= MAX_QUEUE_LENGTH
     THEN [S1 EXCEPT !.QUEUE = Append(@, id)]
     ELSE [S1 EXCEPT !.job[id].status = "failed",
                     !.job[id].error = "over_capacity",
                     !.job[id].progress = 0]

\* jobs.js createJob; the new id is the next in submission order
createJob(S, i) ==
  LET id == Len(S.job) + 1
      fresh == [status |-> "queued", progress |-> 0, error |-> "null",
                downloadPath |-> << >>, age |-> 0, inp |-> i]
      S1 == [S EXCEPT !.job = Append(@, fresh),
                      !.JOBS = @ \cup {id},
                      !.command = Append(@, "none")]
  IN IF Cardinality(S1.RUNNING_JOBS) < MAX_CONCURRENT_JOBS
     THEN [S1 EXCEPT !.immediates = Append(@, id)]
     ELSE IF Len(S1.QUEUE) < MAX_QUEUE_LENGTH
     THEN [S1 EXCEPT !.QUEUE = Append(@, id)]
     ELSE [S1 EXCEPT !.job[id].status = "failed",
                     !.job[id].error = "over_capacity",
                     !.job[id].progress = 0]

\* POST /exports
CreateJob(i) ==
  /\ phase = "poll"
  /\ Len(job) < MaxJobs
  /\ Len(immediates) < MaxBurst
  /\ Commit(createJob(Store, i))
  /\ UNCHANGED phase

\* the check phase runs the pending setImmediate callbacks, oldest first, and
\* no I/O callback runs between two of them
RunImmediate ==
  /\ immediates /= << >>
  /\ Commit(startRenderJob([Store EXCEPT !.immediates = Tail(@)], Head(immediates)))
  /\ phase' = IF Tail(immediates) = << >> THEN "poll" ELSE "check"

\* the ffmpeg process opens (creates) its output file
EncoderOpen(id) ==
  /\ phase = "poll"
  /\ id \in DOMAIN command /\ command[id] = "spawned"
  /\ command' = [command EXCEPT ![id] = "writing"]
  /\ files' = files \cup {id}
  /\ UNCHANGED <<job, JOBS, RUNNING_JOBS, QUEUE, immediates, phase, call, ret,
                 media, uploads, render, debug, counter>>

\* mutant of onProgress: the reported value is stored without the max
onProgress_noMax(S, id, percent) ==
  IF id \notin S.JOBS
  THEN [S EXCEPT !.command[id] = "killed"]
  ELSE LET pct10 == IF Some(percent) THEN Val(percent)
                    ELSE 10 * Min2(99, S.job[id].progress + 1)
       IN [S EXCEPT !.job[id].progress = Max2(0, Min2(100, RoundDiv(pct10, 10)))]

\* mutant of onProgress: the reported value is not limited to 100
onProgress_noLimit(S, id, percent) ==
  IF id \notin S.JOBS
  THEN [S EXCEPT !.command[id] = "killed"]
  ELSE LET pct10 == IF Some(percent) THEN Val(percent)
                    ELSE 10 * Min2(99, S.job[id].progress + 1)
       IN [S EXCEPT !.job[id].progress = Max2(@, RoundDiv(pct10, 10))]

\* mutant of onProgress: the handler does not test whether the record exists
onProgress_noCheck(S, id, percent) ==
  LET pct10 == IF Some(percent) THEN Val(percent)
               ELSE 10 * Min2(99, S.job[id].progress + 1)
  IN [S EXCEPT !.job[id].progress = Max2(@, Min2(100, RoundDiv(pct10, 10)))]

\* .on('progress'); percent is in tenths, so Math.round(pct) is RoundDiv(pct10, 10)
onProgress(S, id, percent) ==
  IF id \notin S.JOBS
  THEN [S EXCEPT !.command[id] = "killed"]
  ELSE LET pct10 == IF Some(percent) THEN Val(percent)
                    ELSE 10 * Min2(99, S.job[id].progress + 1)
       IN [S EXCEPT !.job[id].progress = Max2(@, Min2(100, RoundDiv(pct10, 10)))]

EncoderProgress(id, percent) ==
  /\ phase = "poll"
  /\ id \in DOMAIN command /\ command[id] = "writing"
  /\ Some(percent) \/ job[id].progress < MaxBlind \/ job[id].progress >= 99
  /\ Commit(onProgress(Store, id, percent))
  /\ UNCHANGED phase

\* mutant of onError: the failed job is put back on the queue for a retry
onError_retry(S, id) ==
  scheduleNext(pruneOldJobs(
    [S EXCEPT !.job[id].status = "queued",
              !.job[id].error = "ffmpeg_error",
              !.job[id].progress = 0,
              !.files = @ \ {id},
              !.RUNNING_JOBS = @ \ {id},
              !.QUEUE = Append(@, id)]))

\* mutant of onError: the output file is left on disk
onError_keepFile(S, id) ==
  scheduleNext(pruneOldJobs(
    [S EXCEPT !.job[id].status = "failed",
              !.job[id].error = "ffmpeg_error",
              !.job[id].progress = 0,
              !.RUNNING_JOBS = @ \ {id}]))

\* .on('error')
onError(S, id) ==
  scheduleNext(pruneOldJobs(
    [S EXCEPT !.job[id].status = "failed",
              !.job[id].error = "ffmpeg_error",
              !.job[id].progress = 0,
              !.files = @ \ {id},
              !.RUNNING_JOBS = @ \ {id}]))

EncoderError(id) ==
  /\ phase = "poll"
  /\ id \in DOMAIN command /\ command[id] \in {"spawned", "writing", "killed"}
  /\ Commit(onError([Store EXCEPT !.command[id] = "done"], id))
  /\ UNCHANGED phase

\* .on('end')
onEnd(S, id) ==
  scheduleNext(pruneOldJobs(
    [S EXCEPT !.job[id].status = "complete",
              !.job[id].progress = 100,
              !.RUNNING_JOBS = @ \ {id}]))

EncoderEnd(id) ==
  /\ phase = "poll"
  /\ id \in DOMAIN command /\ command[id] = "writing"
  /\ Commit(onEnd([Store EXCEPT !.command[id] = "done"], id))
  /\ UNCHANGED phase

\* an hour passes.  Time that passes while no record can still expire is not
\* observable, and no hour passes between a poll phase and the check phase
\* that follows it.
Tick ==
  /\ phase = "poll"
  /\ immediates = << >>
  /\ \E id \in JOBS : job[id].age <= MAX_AGE_MS
  /\ job' = [id \in DOMAIN job |->
              [job[id] EXCEPT !.age = Min2(@ + TickMs, Expired)]]
  /\ UNCHANGED <<JOBS, RUNNING_JOBS, QUEUE, immediates, phase, command, files,
                 call, ret, media, uploads, render, debug, counter>>

Next ==
  \/ \E i \in SchedInputs : CreateJob(i)
  \/ RunImmediate
  \/ \E id \in DOMAIN command : EncoderOpen(id)
  \/ \E id \in DOMAIN command : \E percent \in PctValues : EncoderProgress(id, percent)
  \/ \E id \in DOMAIN command : EncoderError(id)
  \/ \E id \in DOMAIN command : EncoderEnd(id)
  \/ Tick

Spec == Init /\ [][Next]_vars

\* The scheduler under fairness, for a short run of submissions: every pending
\* setImmediate callback runs, and every started encode eventually emits its
\* terminal event ('end' or 'error').
LiveCreateJob(i) == Len(job) < MaxLiveJobs /\ CreateJob(i)

LiveNext ==
  \/ \E i \in SchedInputs : LiveCreateJob(i)
  \/ RunImmediate
  \/ \E id \in DOMAIN command : EncoderOpen(id)
  \/ \E id \in DOMAIN command : \E percent \in PctValues : EncoderProgress(id, percent)
  \/ \E id \in DOMAIN command : EncoderError(id)
  \/ \E id \in DOMAIN command : EncoderEnd(id)
  \/ Tick

\* the step RunImmediate takes, as seen on immediates alone
RanImmediate == immediates /= << >> /\ immediates' = Tail(immediates)

\* the step EncoderEnd(id) or EncoderError(id) takes, as seen on command alone
CommandStates == {"none", "spawned", "writing", "killed", "done"}
EncoderTerminated(id) ==
  /\ id \in DOMAIN command /\ command[id] \in {"spawned", "writing", "killed"}
  /\ \E c \in [DOMAIN command -> CommandStates] : c[id] = "done" /\ command' = c

Fairness ==
  /\ WF_immediates(RanImmediate)
  /\ \A id \in 1..MaxLiveJobs : WF_command(EncoderTerminated(id))

LiveSpec == Init /\ [][LiveNext]_vars /\ Fairness

\* The scheduler for a run of a few submissions that draw every request body.
\* The run is shorter than MAX_AGE_MS, so no record expires in it.
PipeCreateJob(i) == Len(job) < MaxPipeJobs /\ CreateJob(i)

PipeNext ==
  \/ \E i \in DOMAIN Inputs : PipeCreateJob(i)
  \/ RunImmediate
  \/ \E id \in DOMAIN command : EncoderOpen(id)
  \/ \E id \in DOMAIN command : \E percent \in PipePctValues : EncoderProgress(id, percent)
  \/ \E id \in DOMAIN command : EncoderError(id)
  \/ \E id \in DOMAIN command : EncoderEnd(id)

PipeSpec == Init /\ [][PipeNext]_vars

\* The scheduler for a run of a few encodable submissions whose encoders
\* report a finer set of percentages; no record expires in it.
ProgressCreateJob == Len(job) < MaxProgressJobs /\ CreateJob(1)

ProgressNext ==
  \/ ProgressCreateJob
  \/ RunImmediate
  \/ \E id \in DOMAIN command : EncoderOpen(id)
  \/ \E id \in DOMAIN command : \E percent \in FinePctValues : EncoderProgress(id, percent)
  \/ \E id \in DOMAIN command : EncoderError(id)
  \/ \E id \in DOMAIN command : EncoderEnd(id)

ProgressSpec == Init /\ [][ProgressNext]_vars

\* ------------------------------------------- direct calls of the functions
\* FnSpec calls one function once, on arguments drawn from the sets below,
\* and records what it returns.

\* a clip whose frame range is reversed
ClipReversed == [id |-> "c3", sourceId |-> "s1", startFrame |-> 30, endFrame |-> 10,
                 timelineStartFrame |-> 5]

\* projects: absent, zero and negative dimensions and frame rates, no clip,
\* one clip, a reversed clip
ProjectDims == {[w |-> << >>, h |-> << >>], [w |-> <<0>>, h |-> <<-360>>],
                [w |-> <<640>>, h |-> <<360>>]}
ProjectRates == {[t |-> << >>, s |-> << >>], [t |-> << >>, s |-> <<30>>],
                 [t |-> <<0>>, s |-> << >>], [t |-> <<-24>>, s |-> <<30>>]}
ProjectClips == {<< >>, <<ClipA>>, <<ClipReversed>>}
Projects ==
  {[sources |-> <<SourceA, SourceB>>, clips |-> c, tfps |-> r.t, sfps |-> r.s,
    width |-> d.w, height |-> d.h] :
     c \in ProjectClips, r \in ProjectRates, d \in ProjectDims}

\* selectors: none, an explicit range (frames 0..239), a reversed range, a
\* clip that does not exist, a source
Selectors ==
  {<< >>,
   <<[TimelineSelector EXCEPT !.inFrame = <<0>>, !.outFrame = <<239>>]>>,
   <<[TimelineSelector EXCEPT !.inFrame = <<10>>, !.outFrame = <<2>>]>>,
   <<[TimelineSelector EXCEPT !.kind = "clip", !.clipId = "zz"]>>,
   <<[TimelineSelector EXCEPT !.kind = "source", !.sourceId = "s1"]>>}

\* settings: custom resolutions with zero, negative and absent sides; zero,
\* negative and fractional scales; zero and negative overriding frame rates
SettingsResolutions ==
  {[o |-> "project", w |-> << >>, h |-> << >>], [o |-> "custom", w |-> <<0>>, h |-> <<720>>],
   [o |-> "custom", w |-> <<-1280>>, h |-> <<-720>>],
   [o |-> "custom", w |-> <<1280>>, h |-> <<720>>]}
SettingsScales ==
  {<< >>, <<[n |-> 0, d |-> 1]>>, <<[n |-> -1, d |-> 2]>>, <<[n |-> 1, d |-> 3]>>}
SettingsRates ==
  {[m |-> "project", f |-> << >>], [m |-> "override", f |-> <<0>>],
   [m |-> "override", f |-> <<-30>>], [m |-> "override", f |-> <<60>>]}
SettingsSet ==
  {[container |-> <<"m","p","4">>, source |-> sel, outputResolution |-> r.o,
    width |-> r.w, height |-> r.h, fpsMode |-> f.m, fps |-> f.f,
    renderResolutionScale |-> sc] :
     sel \in Selectors, r \in SettingsResolutions, f \in SettingsRates,
     sc \in SettingsScales}

DeriveCalls ==
  {[NoCall EXCEPT !.fn = "deriveRenderParams", !.project = pr, !.settings = st] :
     pr \in Projects, st \in SettingsSet}

\* explicit ranges: both ends, one end or none, in either order
MaxFrame == 2
FrameValues == (-MaxFrame..MaxFrame) \cup {239}
FrameOptions == {<< >>} \cup {<<f>> : f \in FrameValues}
RangeSelectors ==
  {<<[TimelineSelector EXCEPT !.inFrame = i, !.outFrame = o]>> :
     i \in FrameOptions, o \in FrameOptions}
DurationCalls ==
  {[NoCall EXCEPT !.fn = "computeDurationFrames", !.project = pr,
                  !.settings = [SettingsPlain EXCEPT !.source = sel]] :
     pr \in Projects, sel \in RangeSelectors \cup Selectors}

\* media stores: every subset of the six files a source with hash h1 and
\* name a.mov can resolve to, each file empty or not
MediaNames ==
  {<<"h","1",".","m","p","4">>, <<"h","1",".","m","o","v">>, <<"h","1",".","m","k","v">>,
   <<"h","1",".","w","e","b","m">>, <<"h","1">>, <<"a",".","m","o","v">>}
Disks == UNION {[present -> {0, 2048}] : present \in SUBSET MediaNames}
\* sources: hash and name, a name that is a path and no hash, a hash and no
\* name, neither, and no source at all
SourceRefs ==
  {<<SourceA>>,
   <<[SourceA EXCEPT !.hash = << >>, !.originalName = <<"d","/","a",".","m","o","v">>]>>,
   <<[SourceA EXCEPT !.originalName = << >>]>>,
   <<[SourceA EXCEPT !.hash = << >>, !.originalName = << >>]>>,
   << >>}
Containers == {<< >>, <<"m","p","4">>, <<"m","o","v">>}
ResolveCalls ==
  {[NoCall EXCEPT !.fn = "resolveMediaPathForSource", !.disk = d, !.sourceRef = sr,
                  !.container = c] :
     d \in Disks, sr \in SourceRefs, c \in Containers}

\* settings of computeDurationSeconds: absent, zero, negative and positive
\* fps; no source, one end, both ends in either order, a range of 5001 frames
SecondsRates == {<< >>, <<0>>, <<-24>>, <<1>>, <<24>>, <<30>>}
SecondsFrames == FrameOptions \cup {<<5>>, <<10>>, <<5000>>}
SecondsSources ==
  {<< >>} \cup
  {<<[TimelineSelector EXCEPT !.inFrame = i, !.outFrame = o]>> :
     i \in SecondsFrames, o \in SecondsFrames}
SecondsCalls ==
  {[NoCall EXCEPT !.fn = "computeDurationSeconds",
                  !.settings = [SettingsPlain EXCEPT !.fps = f, !.source = src]] :
     f \in SecondsRates, src \in SecondsSources}
  \cup {[NoCall EXCEPT !.fn = "computeDurationSeconds", !.settings = << >>]}

\* timelines of several clips, in either order, starting before frame 0 or
\* holding a reversed clip; sources without frames; selectors of every kind
\* with known, unknown and empty ids
ClipEarly == [id |-> "c4", sourceId |-> "s1", startFrame |-> 5, endFrame |-> 5,
              timelineStartFrame |-> -10]
SourceZero == [SourceA EXCEPT !.id = "s0", !.durationFrames = 0]
SourceNegative == [SourceA EXCEPT !.id = "s9", !.durationFrames = -48]
SpanClips == {<<ClipA, ClipB>>, <<ClipB, ClipA>>, <<ClipEarly, ClipA>>, <<ClipEarly>>,
              <<ClipReversed, ClipB>>, <<ClipReversed, ClipEarly>>}
SpanProjects ==
  {[sources |-> <<SourceZero, SourceA, SourceNegative>>, clips |-> c, tfps |-> r.t,
    sfps |-> r.s, width |-> << >>, height |-> << >>] :
     c \in SpanClips, r \in ProjectRates}
SpanSelectors ==
  {<< >>, <<TimelineSelector>>,
   <<[TimelineSelector EXCEPT !.inFrame = <<3>>]>>,
   <<[TimelineSelector EXCEPT !.kind = "other"]>>}
  \cup {<<[TimelineSelector EXCEPT !.kind = "clip", !.clipId = c]>> :
          c \in {"", "zz", "c1", "c3", "c4"}}
  \cup {<<[TimelineSelector EXCEPT !.kind = "source", !.sourceId = x]>> :
          x \in {"", "zz", "s0", "s1", "s9"}}
SpanCalls ==
  {[NoCall EXCEPT !.fn = "computeDurationFrames", !.project = pr,
                  !.settings = [SettingsPlain EXCEPT !.source = sel]] :
     pr \in SpanProjects, sel \in SpanSelectors}

\* requests for large outputs: twenty and seven times the project's size, a
\* custom width of 8193, 120 fps
SettingsFast == [SettingsPlain EXCEPT !.fpsMode = "override", !.fps = <<120>>]
LargeCalls ==
  {[NoCall EXCEPT !.fn = "deriveRenderParams", !.project = ProjectOne, !.settings = st] :
     st \in {SettingsHuge, SettingsSoft, SettingsWide, SettingsFast}}

\* timelines for the choice of the primary source: clips of one source, of
\* two sources, a clip without a source id, a clip whose source the project
\* does not hold, clips of one source that overlap on the timeline
ClipLater == [id |-> "c5", sourceId |-> "s1", startFrame |-> 0, endFrame |-> 23,
              timelineStartFrame |-> 48]
ClipBlank == [id |-> "c7", sourceId |-> "", startFrame |-> 0, endFrame |-> 23,
              timelineStartFrame |-> 48]
ClipOrphan == [id |-> "c8", sourceId |-> "s7", startFrame |-> 0, endFrame |-> 23,
               timelineStartFrame |-> 48]
PrimaryClips ==
  {<< >>, <<ClipA>>, <<ClipA, ClipLater>>, <<ClipA, ClipB>>, <<ClipB, ClipA>>,
   <<ClipA, ClipBlank>>, <<ClipBlank>>, <<ClipOrphan>>, <<ClipA, ClipOrphan>>,
   <<ClipA, ClipOver>>}
PrimaryProjects == {[ProjectOne EXCEPT !.clips = c] : c \in PrimaryClips}
PrimarySelectors ==
  {<< >>, <<TimelineSelector>>,
   <<[TimelineSelector EXCEPT !.inFrame = <<0>>, !.outFrame = <<239>>]>>}
  \cup {<<[TimelineSelector EXCEPT !.kind = "clip", !.clipId = c]>> :
          c \in {"", "zz", "c1", "c2", "c8"}}
  \cup {<<[TimelineSelector EXCEPT !.kind = "source", !.sourceId = x]>> :
          x \in {"", "zz", "s1", "s2"}}
PrimaryCalls ==
  {[NoCall EXCEPT !.fn = "resolvePrimarySource", !.project = pr,
                  !.settings = [SettingsPlain EXCEPT !.source = sel]] :
     pr \in PrimaryProjects, sel \in PrimarySelectors}

\* requests with and without a custom resolution and a scale factor, for a
\* project of 640x360 and for one without configured dimensions
ScaleSettings ==
  {[SettingsPlain EXCEPT !.outputResolution = r.o, !.width = r.w, !.height = r.h,
                         !.renderResolutionScale = sc] :
     r \in {[o |-> "project", w |-> << >>, h |-> << >>],
            [o |-> "custom", w |-> <<640>>, h |-> <<360>>],
            [o |-> "custom", w |-> <<1280>>, h |-> <<720>>]},
     sc \in {<< >>, <<[n |-> 1, d |-> 1]>>, <<[n |-> 2, d |-> 1]>>, <<[n |-> 1, d |-> 2]>>}}
ScaleCalls ==
  {[NoCall EXCEPT !.fn = "needsScale", !.project = pr, !.settings = st] :
     pr \in {ProjectOne, [ProjectOne EXCEPT !.width = << >>, !.height = << >>]},
     st \in ScaleSettings}

Calls ==
  DeriveCalls \cup DurationCalls \cup ResolveCalls \cup SecondsCalls \cup SpanCalls
    \cup LargeCalls \cup PrimaryCalls \cup ScaleCalls

FnInit == Loaded /\ call \in Calls /\ ret = << >> /\ Quiet

CallDeriveRenderParams ==
  /\ call.fn = "deriveRenderParams" /\ ret = << >>
  /\ ret' = <<deriveRenderParams(call.project, call.settings)>>
  /\ UNCHANGED <<job, JOBS, RUNNING_JOBS, QUEUE, immediates, phase, command, files, call,
                 media, uploads, render, debug, counter>>

CallComputeDurationFrames ==
  /\ call.fn = "computeDurationFrames" /\ ret = << >>
  /\ ret' = <<computeDurationFrames(call.project, call.settings)>>
  /\ UNCHANGED <<job, JOBS, RUNNING_JOBS, QUEUE, immediates, phase, command, files, call,
                 media, uploads, render, debug, counter>>

\* what resolveMediaPathForSource returns is itself an optional path
CallResolveMediaPathForSource ==
  /\ call.fn = "resolveMediaPathForSource" /\ ret = << >>
  /\ ret' = <<resolveMediaPathForSource(call.disk, call.sourceRef, call.container)>>
  /\ UNCHANGED <<job, JOBS, RUNNING_JOBS, QUEUE, immediates, phase, command, files, call,
                 media, uploads, render, debug, counter>>

CallComputeDurationSeconds ==
  /\ call.fn = "computeDurationSeconds" /\ ret = << >>
  /\ ret' = <<computeDurationSeconds(call.settings)>>
  /\ UNCHANGED <<job, JOBS, RUNNING_JOBS, QUEUE, immediates, phase, command, files, call,
                 media, uploads, render, debug, counter>>

\* what resolvePrimarySource returns is itself an optional source
CallResolvePrimarySource ==
  /\ call.fn = "resolvePrimarySource" /\ ret = << >>
  /\ ret' = <<resolvePrimarySource(call.project, call.settings)>>
  /\ UNCHANGED <<job, JOBS, RUNNING_JOBS, QUEUE, immediates, phase, command, files, call,
                 media, uploads, render, debug, counter>>

CallNeedsScale ==
  /\ call.fn = "needsScale" /\ ret = << >>
  /\ ret' = <<needsScale(call.project, call.settings)>>
  /\ UNCHANGED <<job, JOBS, RUNNING_JOBS, QUEUE, immediates, phase, command, files, call,
                 media, uploads, render, debug, counter>>

FnNext ==
  \/ CallNeedsScale
  \/ CallResolvePrimarySource
  \/ CallComputeDurationSeconds
  \/ CallDeriveRenderParams
  \/ CallComputeDurationFrames
  \/ CallResolveMediaPathForSource

FnSpec == FnInit /\ [][FnNext]_vars

\* ------------------------------------------- uploads (mediaRoutes.js)
\* A file's content is named by its SHA-256: h0 is the empty file, h1 a file
\* of 2048 bytes.
H0 == <<"h","0">>
H1 == <<"h","1">>
ContentSize(content) == IF content = H0 THEN 0 ELSE 2048

\* path.extname of a name without directories: from the last "." on, and
\* nothing when there is no "." or the only one leads the name
extname(name) ==
  LET dots == {i \in DOMAIN name : name[i] = DOT}
      last == IF dots = {} THEN 0 ELSE CHOOSE i \in dots : \A k \in dots : k <= i
  IN IF last <= 1 THEN << >> ELSE SubSeq(name, last, Len(name))

\* map[mimetype] || ''
mimeExtension(mimetype) ==
  CASE mimetype = "video/mp4" -> <<".","m","p","4">>
    [] mimetype = "video/quicktime" -> <<".","m","o","v">>
    [] mimetype = "video/webm" -> <<".","w","e","b","m">>
    [] mimetype = "video/x-matroska" -> <<".","m","k","v">>
    [] OTHER -> << >>

deduceExtension(originalName, mimetype) ==
  LET safeName == safeBaseName(originalName)
      ext == IF Some(safeName) /\ Val(safeName) /= << >>
             THEN extname(Val(safeName)) ELSE << >>
  IN IF ext /= << >> THEN ext ELSE mimeExtension(mimetype)

\* multer's file name: upload-<unique>, unique per request; the multipart
\* part carries no file name of its own, so the name has no extension
Digits == <<"1","2","3","4","5","6","7","8","9">>
UploadName(n) == <<"u","p","l","o","a","d","-", Digits[n]>>

\* fs.unlinkSync(name) when the file exists
Unlinked(store, name) == [n \in DOMAIN store \ {name} |-> store[n]]
\* fs.renameSync(from, to): replaces to when it exists
Renamed(store, from, to) ==
  [n \in (DOMAIN store \ {from}) \cup {to} |-> IF n = to THEN store[from] ELSE store[n]]

\* requests: file is the content of the uploaded part (absent when the part
\* is missing), hash and originalName are body fields, mimetype comes with
\* the part
UploadRequests ==
  {[file |-> <<c>>, hash |-> h, originalName |-> name, mimetype |-> mt] :
     c \in {H0, H1}, h \in {<< >>, H0, H1},
     name \in {<< >>, <<"a",".","m","p","4">>, <<"a",".","m","o","v">>,
               <<"a",".","a","v","i">>},
     mt \in {"video/mp4", "application/octet-stream"}}
  \cup {[file |-> << >>, hash |-> H1, originalName |-> << >>, mimetype |-> "video/mp4"]}

\* MEDIA_ROOT has just been created
UploadInit ==
  Loaded /\ call = NoCall /\ ret = << >> /\ media = << >> /\ uploads = << >>
    /\ render = NoRender /\ debug = << >> /\ counter = NoCounter

\* POST /media/upload up to the await: multer has stored the part under its
\* temporary name, and a request without file or hash is answered at once
PostUpload(req) ==
  /\ Len(uploads) < MaxUploads
  /\ LET n == Len(uploads) + 1
         stored == IF Some(req.file)
                   THEN media @@ (UploadName(n) :> ContentSize(Val(req.file)))
                   ELSE media
         received == [req |-> req,
                      temp |-> IF Some(req.file) THEN <<UploadName(n)>> ELSE << >>,
                      state |-> "hashing", code |-> 0, error |-> "null",
                      cached |-> FALSE, path |-> << >>,
                      \* the requests answered before this one arrived
                      prior |-> {v \in DOMAIN uploads : uploads[v].state = "done"}]
     IN IF ~Some(req.file) \/ req.hash = << >>
        THEN /\ media' = Unlinked(stored, UploadName(n))
             /\ uploads' = Append(uploads, [received EXCEPT !.state = "done", !.code = 400,
                                                            !.error = "invalid_request"])
        ELSE /\ media' = stored
             /\ uploads' = Append(uploads, received)
  /\ UNCHANGED <<job, JOBS, RUNNING_JOBS, QUEUE, immediates, phase, command, files,
                 call, ret, render, debug, counter>>

\* computeFileHash has resolved: the rest of the handler runs
UploadHashed(u) ==
  /\ u \in DOMAIN uploads /\ uploads[u].state = "hashing"
  /\ LET req == uploads[u].req
         temp == Val(uploads[u].temp)
         computed == Val(req.file)
         ext == deduceExtension(req.originalName, req.mimetype)
         finalPath == req.hash \o ext
     IN IF computed /= req.hash
        THEN /\ media' = Unlinked(media, temp)
             /\ uploads' = [uploads EXCEPT ![u].state = "done", ![u].code = 400,
                                           ![u].error = "hash_mismatch"]
        ELSE IF finalPath \in DOMAIN media /\ media[finalPath] > 0
        THEN /\ media' = Unlinked(media, temp)
             /\ uploads' = [uploads EXCEPT ![u].state = "done", ![u].code = 200,
                                           ![u].cached = TRUE, ![u].path = <<finalPath>>]
        ELSE /\ media' = Renamed(media, temp, finalPath)
             /\ uploads' = [uploads EXCEPT ![u].state = "done", ![u].code = 201,
                                           ![u].path = <<finalPath>>]
  /\ UNCHANGED <<job, JOBS, RUNNING_JOBS, QUEUE, immediates, phase, command, files,
                 call, ret, render, debug, counter>>

\* computeFileHash has rejected (the read failed): the catch block unlinks the
\* temporary file and hands the error to express
UploadReadFailed(u) ==
  /\ u \in DOMAIN uploads /\ uploads[u].state = "hashing"
  /\ media' = Unlinked(media, Val(uploads[u].temp))
  /\ uploads' = [uploads EXCEPT ![u].state = "done", ![u].code = 500,
                                ![u].error = "internal_error"]
  /\ UNCHANGED <<job, JOBS, RUNNING_JOBS, QUEUE, immediates, phase, command, files,
                 call, ret, render, debug, counter>>

UploadNext ==
  \/ \E req \in UploadRequests : PostUpload(req)
  \/ \E u \in DOMAIN uploads : UploadHashed(u)
  \/ \E u \in DOMAIN uploads : UploadReadFailed(u)

UploadSpec == UploadInit /\ [][UploadNext]_vars

\* ------------------------------------------- the scheduler that counts
\* The second scheduler of jobs.js has no queue and no running set: createJob
\* stores the record and defers tryStartQueuedJobs, which starts the first
\* record that is 'queued' and not _started when activeRenders is below
\* MAX_CONCURRENT_FFMPEG; each start gets an onDone callback that decrements
\* the counter and tries again. A record of counter.jobs holds the status,
\* the _started flag, the number of times startRender ran for it, the state
\* of its ffmpeg command, whether its derived size is over the hard ceiling
\* and whether it is older than MAX_AGE_MS.
MaxCounterJobs == 4
MAX_CONCURRENT_FFMPEG == 2

\* the first record in JOBS (insertion order) that is 'queued' and not started
nextQueued(C) ==
  LET waiting == {id \in C.present : C.jobs[id].status = "queued" /\ ~C.jobs[id].started}
  IN IF waiting = {} THEN 0 ELSE CHOOSE id \in waiting : \A other \in waiting : id <= other

\* mutant of tryStartQueuedJobs: the counter is not compared with the limit
RECURSIVE tryStartQueuedJobs_noLimit(_)
tryStartQueuedJobs_noLimit(C) ==
  IF nextQueued(C) = 0 THEN C
  ELSE LET id == nextQueued(C)
           marked == [C EXCEPT !.jobs[id].started = TRUE,
                               !.jobs[id].starts = @ + 1,
                               !.activeRenders = @ + 1]
       IN IF C.jobs[id].large
          THEN tryStartQueuedJobs_noLimit(
                 [marked EXCEPT !.jobs[id].status = "failed",
                                !.jobs[id].error = "job_too_large",
                                !.activeRenders = Max2(0, @ - 1)])
          ELSE [marked EXCEPT !.jobs[id].status = "rendering",
                              !.jobs[id].progress = 0,
                              !.jobs[id].error = "null",
                              !.jobs[id].encoder = "running"]

\* tryStartQueuedJobs with startRender up to the start of the encoder; a job
\* over the hard ceiling calls onDone at once, which decrements the counter
\* and calls tryStartQueuedJobs again
RECURSIVE tryStartQueuedJobs(_)
tryStartQueuedJobs(C) ==
  IF C.activeRenders >= MAX_CONCURRENT_FFMPEG THEN C
  ELSE IF nextQueued(C) = 0 THEN C
  ELSE LET id == nextQueued(C)
           marked == [C EXCEPT !.jobs[id].started = TRUE,
                               !.jobs[id].starts = @ + 1,
                               !.activeRenders = @ + 1]
       IN IF C.jobs[id].large
          THEN tryStartQueuedJobs(
                 [marked EXCEPT !.jobs[id].status = "failed",
                                !.jobs[id].error = "job_too_large",
                                !.activeRenders = Max2(0, @ - 1)])
          ELSE [marked EXCEPT !.jobs[id].status = "rendering",
                              !.jobs[id].progress = 0,
                              !.jobs[id].error = "null",
                              !.jobs[id].encoder = "running"]

\* onDone of a job whose encoder has terminated
onDone(C) == tryStartQueuedJobs([C EXCEPT !.activeRenders = Max2(0, @ - 1)])

\* pruneOldJobs of this scheduler: every record older than MAX_AGE_MS goes
counterPrune(C) == [C EXCEPT !.present = {id \in @ : ~C.jobs[id].old}]

CounterRest ==
  UNCHANGED <<job, JOBS, RUNNING_JOBS, QUEUE, immediates, phase, command, files,
              call, ret, media, uploads, render, debug>>

\* createJob: the record is stored and tryStartQueuedJobs is deferred
CounterCreateJob(large) ==
  /\ Len(counter.jobs) < MaxCounterJobs
  /\ counter' = [counter EXCEPT
       !.jobs = Append(@, [status |-> "queued", progress |-> 0, error |-> "null",
                           started |-> FALSE, starts |-> 0, encoder |-> "none",
                           large |-> large, old |-> FALSE]),
       !.present = @ \cup {Len(counter.jobs) + 1},
       !.immediates = @ + 1]
  /\ CounterRest

\* a deferred tryStartQueuedJobs runs
CounterImmediate ==
  /\ counter.immediates > 0
  /\ counter' = tryStartQueuedJobs([counter EXCEPT !.immediates = @ - 1])
  /\ CounterRest

\* the oldest record that is not yet older than MAX_AGE_MS becomes so
CounterAge ==
  /\ \E id \in DOMAIN counter.jobs :
       /\ ~counter.jobs[id].old
       /\ \A other \in 1..(id - 1) : counter.jobs[other].old
       /\ counter' = [counter EXCEPT !.jobs[id].old = TRUE]
  /\ CounterRest

\* 'progress' of a job's encoder: the encoder of a removed record is killed
CounterProgress(id) ==
  /\ id \in DOMAIN counter.jobs /\ counter.jobs[id].encoder = "running"
  /\ counter' = IF id \notin counter.present
                THEN [counter EXCEPT !.jobs[id].encoder = "killed"]
                ELSE [counter EXCEPT !.jobs[id].progress = Max2(@, 50)]
  /\ CounterRest

\* 'error' of a job's encoder, also the one that follows a kill
CounterError(id) ==
  /\ id \in DOMAIN counter.jobs /\ counter.jobs[id].encoder \in {"running", "killed"}
  /\ counter' = onDone([counter EXCEPT !.jobs[id].status = "failed",
                                       !.jobs[id].error = "ffmpeg_error",
                                       !.jobs[id].progress = 0,
                                       !.jobs[id].encoder = "done"])
  /\ CounterRest

\* 'end' of a job's encoder
CounterEnd(id) ==
  /\ id \in DOMAIN counter.jobs /\ counter.jobs[id].encoder = "running"
  /\ counter' = onDone(counterPrune([counter EXCEPT !.jobs[id].status = "complete",
                                                    !.jobs[id].progress = 100,
                                                    !.jobs[id].encoder = "done"]))
  /\ CounterRest

CounterNext ==
  \/ \E large \in BOOLEAN : CounterCreateJob(large)
  \/ CounterImmediate
  \/ CounterAge
  \/ \E id \in DOMAIN counter.jobs : CounterProgress(id)
  \/ \E id \in DOMAIN counter.jobs : CounterError(id)
  \/ \E id \in DOMAIN counter.jobs : CounterEnd(id)

CounterSpec == Init /\ [][CounterNext]_vars

\* ------------------------------------------------- a job's debug entries
\* pushJobDebug appends {ts, label, payload} to job.debug. ts is the time of
\* the append, here the number of appends made so far; the payload is left
\* out. DebugSpec appends MaxPushes entries to the debug array of one job, of
\* which at most MaxMarked at a time are not ffmpeg's stderr lines.
MaxPushes == 53
MaxMarked == 1

\* mutant of pushJobDebug: nothing is ever removed
pushJobDebug_noShift(entries, ts, label) == Append(entries, [ts |-> ts, label |-> label])

pushJobDebug(entries, ts, label) ==
  LET kept == IF Len(entries) > 50 THEN Tail(entries) ELSE entries
  IN Append(kept, [ts |-> ts, label |-> label])

DebugLabels == {"ffmpeg_stderr", "ffmpeg_start"}
Marked(entries) == {i \in DOMAIN entries : entries[i].label /= "ffmpeg_stderr"}

PushJobDebug(label) ==
  /\ LET ts == IF debug = << >> THEN 1 ELSE debug[Len(debug)].ts + 1
     IN /\ ts <= MaxPushes
        /\ label = "ffmpeg_stderr" \/ Cardinality(Marked(debug)) < MaxMarked
        /\ debug' = pushJobDebug(debug, ts, label)
  /\ UNCHANGED <<job, JOBS, RUNNING_JOBS, QUEUE, immediates, phase, command, files,
                 call, ret, media, uploads, render, counter>>

DebugNext == \E label \in DebugLabels : PushJobDebug(label)

DebugSpec == Init /\ [][DebugNext]_vars

\* ------------------------------------------------- the runExport adapter
\* ffmpegRunner.js renders a test pattern for one job: runExport derives the
\* parameters from the settings alone and awaits executeRender, whose encoder
\* reports progress and ends or fails; a failure of libx265 is retried once
\* with libx264. render holds the job's progress, the parameters of the
\* running encode and the state of runExport's promise.
allowedContainers == {"mp4", "mov", "webm", "mkv"}

sanitizeContainer(container) ==
  IF Some(container) /\ Val(container) \in allowedContainers THEN Val(container) ELSE "mp4"

\* codecMap[name], absent for a name that is not a key
codecMap(name) ==
  CASE name = "h264" -> <<"libx264">>
    [] name = "h265" -> <<"libx265">>
    [] name = "vp9" -> <<"libvpx-vp9">>
    [] OTHER -> << >>

sanitizeCodec(videoCodec) ==
  LET normalized == IF Some(videoCodec) THEN Val(videoCodec) ELSE "h264"
  IN IF Some(codecMap(normalized)) THEN Val(codecMap(normalized)) ELSE Val(codecMap("h264"))

\* the arguments runExport passes to executeRender; settings may be null
exportParams(settings) ==
  LET given == IF settings = << >>
               THEN [width |-> << >>, height |-> << >>, fps |-> << >>, source |-> << >>,
                     container |-> << >>, videoCodec |-> << >>]
               ELSE settings
      fps == IF Some(given.fps) /\ Val(given.fps) > 0 THEN Val(given.fps) ELSE 24
  IN [width |-> IF Some(given.width) /\ Val(given.width) > 0 THEN Val(given.width) ELSE 640,
      height |-> IF Some(given.height) /\ Val(given.height) > 0 THEN Val(given.height) ELSE 360,
      fps |-> fps,
      durationSeconds |-> computeDurationSeconds([fps |-> <<fps>>, source |-> given.source]),
      container |-> sanitizeContainer(given.container),
      codec |-> sanitizeCodec(given.videoCodec)]

\* the 'progress' handler of executeRender
adapterProgress(progress, percent) ==
  IF Some(percent) THEN Max2(0, Min2(100, RoundDiv(Val(percent), 10)))
  ELSE IF progress = 0 \/ progress < 50 THEN 50
  ELSE progress

ExportSettings ==
  {<< >>} \cup
  [width : {<< >>, <<0>>, <<1280>>}, height : {<< >>, <<720>>}, fps : {<< >>, <<30>>},
   source : {<< >>, <<[TimelineSelector EXCEPT !.inFrame = <<0>>, !.outFrame = <<239>>]>>},
   container : {<< >>, <<"webm">>, <<"avi">>},
   videoCodec : {<< >>, <<"h265">>, <<"vp9">>, <<"av1">>}]

\* runExport is called for a new job: the parameters are derived and the
\* first encode is started
RunExport(settings) ==
  /\ render.state = "idle"
  /\ LET p == exportParams(settings)
     IN render' = [state |-> "rendering", progress |-> render.progress, attempt |-> 1,
                   codec |-> p.codec, container |-> p.container, width |-> p.width,
                   height |-> p.height, fps |-> p.fps,
                   durationSeconds |-> p.durationSeconds]
  /\ UNCHANGED <<job, JOBS, RUNNING_JOBS, QUEUE, immediates, phase, command, files,
                 call, ret, media, uploads, debug, counter>>

\* the encoder reports progress, with or without a percentage
AdapterProgress(percent) ==
  /\ render.state = "rendering"
  /\ render' = [render EXCEPT !.progress = adapterProgress(@, percent)]
  /\ UNCHANGED <<job, JOBS, RUNNING_JOBS, QUEUE, immediates, phase, command, files,
                 call, ret, media, uploads, debug, counter>>

\* the encoder fails: executeRender's promise rejects; runExport catches the
\* rejection of its first encode and, if that was libx265, resets the
\* progress and encodes again with libx264
AdapterError ==
  /\ render.state = "rendering"
  /\ render' = IF render.attempt = 1 /\ render.codec = "libx265"
               THEN [render EXCEPT !.progress = 0, !.attempt = 2,
                                   !.codec = Val(codecMap("h264"))]
               ELSE [render EXCEPT !.state = "rejected"]
  /\ UNCHANGED <<job, JOBS, RUNNING_JOBS, QUEUE, immediates, phase, command, files,
                 call, ret, media, uploads, debug, counter>>

\* the encoder ends
AdapterEnd ==
  /\ render.state = "rendering"
  /\ render' = [render EXCEPT !.progress = 100, !.state = "resolved"]
  /\ UNCHANGED <<job, JOBS, RUNNING_JOBS, QUEUE, immediates, phase, command, files,
                 call, ret, media, uploads, debug, counter>>

AdapterNext ==
  \/ \E settings \in ExportSettings : RunExport(settings)
  \/ \E percent \in FinePctValues : AdapterProgress(percent)
  \/ AdapterError
  \/ AdapterEnd

AdapterSpec == Init /\ [][AdapterNext]_vars

\* ------------------------------------------------------------- properties
Ids == DOMAIN job
Rendering == {id \in Ids : job[id].status = "rendering"}
\* the job has entered 'rendering' at some point
Started(id) == job[id].status /= "queued" /\ job[id].error /= "over_capacity"

\* C1: the number of jobs whose status is 'rendering' never exceeds
\* MAX_CONCURRENT_JOBS.
C1_RenderingWithinLimit == Cardinality(Rendering) <= MAX_CONCURRENT_JOBS

\* C2: a createJob call made while MAX_CONCURRENT_JOBS jobs are running and
\* the queue holds MAX_QUEUE_LENGTH entries returns a job that is 'failed' with
\* error 'over_capacity' and is retrievable by getJob; a job so rejected is
\* never in the queue, the running set or the pending starts, and the encoder
\* is never invoked for it.
C2_OverCapacityRejected ==
  [][ /\ (Len(job') = Len(job) + 1
            /\ Cardinality(RUNNING_JOBS) >= MAX_CONCURRENT_JOBS
            /\ Len(QUEUE) >= MAX_QUEUE_LENGTH)
          => LET id == Len(job')
             IN /\ job'[id].status = "failed"
                /\ job'[id].error = "over_capacity"
                /\ id \in JOBS'
      /\ \A id \in DOMAIN job' :
           job'[id].error = "over_capacity"
             => /\ job'[id].status = "failed"
                /\ id \notin Range(QUEUE')
                /\ id \notin RUNNING_JOBS'
                /\ id \notin Range(immediates')
                /\ command'[id] = "none" ]_vars

C2_Witness ==
  \E id \in Ids : job[id].error = "over_capacity" /\ getJob(id) = <<job[id]>>

\* C3: the queue never holds more than MAX_QUEUE_LENGTH entries, and every
\* submitted job is in exactly one situation: scheduled to start or running,
\* waiting in the queue, or terminal.
C3_NoSubmissionLost ==
  /\ Len(QUEUE) <= MAX_QUEUE_LENGTH
  /\ \A id \in Ids :
       LET active == id \in Range(immediates) \/ id \in RUNNING_JOBS
           waiting == id \in Range(QUEUE)
           terminal == job[id].status \in TerminalStatuses
       IN /\ active \/ waiting \/ terminal
          /\ ~(active /\ waiting) /\ ~(active /\ terminal) /\ ~(waiting /\ terminal)

\* C4: queued jobs start in submission order: while a job X waits in the
\* queue, no job submitted after X has entered 'rendering'.
C4_Fifo ==
  \A x \in Range(QUEUE) : \A y \in Ids : y > x => ~Started(y)

\* the submission after MAX_CONCURRENT_JOBS + MAX_QUEUE_LENGTH others was
\* rejected, so the MAX_QUEUE_LENGTH submissions before it were all in the
\* queue at that moment; both have started since, in order
C4_Witness ==
  LET r == MAX_CONCURRENT_JOBS + MAX_QUEUE_LENGTH + 1
  IN /\ r \in Ids /\ job[r].error = "over_capacity"
     /\ \E x \in Ids : \E y \in Ids :
          /\ MAX_CONCURRENT_JOBS < x /\ x < y /\ y < r
          /\ Started(x) /\ job[x].status \in TerminalStatuses
          /\ job[y].status = "rendering"

\* C5: a job's status only moves forward: a terminal status never changes, and
\* a rendering job never becomes queued again.
C5_StatusMonotonic ==
  [][ \A id \in DOMAIN job :
        /\ job[id].status \in TerminalStatuses => job'[id].status = job[id].status
        /\ job[id].status = "rendering" => job'[id].status /= "queued" ]_vars

C5_Witness ==
  \E a \in Ids : \E b \in Ids : \E c \in Ids :
    /\ job[a].status = "complete"
    /\ job[b].status = "failed"
    /\ job[c].status = "rendering" /\ job[c].progress > 0 /\ c > a /\ c > b

C7_DownloadPathIffComplete ==
  \A id \in JOBS : Some(job[id].downloadPath) <=> job[id].status = "complete"

\* C8: the status response carries a download URL if and only if the job's
\* status is 'complete'.
C8_DownloadUrlIffComplete ==
  \A id \in JOBS : Some(statusRoute(id).downloadUrl) <=> job[id].status = "complete"

\* C9: the download operation serves a file exactly when the job record
\* exists, its status is 'complete' and its output file exists on disk, and
\* then it serves that file; in every other case it answers 404 not_found.
C9_DownloadOnlyComplete ==
  \A id \in 1..MaxJobs :
    LET r == downloadRoute(id)
        ok == id \in JOBS /\ job[id].status = "complete" /\ id \in files
    IN /\ ok => r.code = 200 /\ r.file = <<id>>
       /\ ~ok => r.code = 404 /\ r.error = "not_found" /\ r.file = << >>

C9_Witness ==
  \E id \in Ids : downloadRoute(id).code = 200
     /\ \E other \in Ids : job[other].status = "failed" /\ other \in JOBS

\* C10: a prune sweep removes neither the record nor the output file of a job
\* that is 'queued' or 'rendering'.
C10_PruneSparesActiveJobs ==
  [][ \A id \in DOMAIN job :
        (job[id].status \in {"queued", "rendering"}
           /\ job'[id].status \in {"queued", "rendering"})
        => /\ id \in JOBS => id \in JOBS'
           /\ id \in files => id \in files' ]_vars

\* C11: the prune sweep removes a terminal job's record only once
\* the time since the job reached its terminal state exceeds the TTL, so a
\* record that a handler removes was already terminal before that handler
\* ran (no time passes inside a handler); and the output file goes with it.
C11_PrunedAfterTerminalTtl ==
  [][ \A id \in JOBS \ JOBS' :
        job'[id].status \in TerminalStatuses
        => /\ job[id].status \in TerminalStatuses
           /\ id \notin files' ]_vars

\* a whole-timeline export (selector of kind timeline, or none) whose clips
\* reference more than one distinct source id
MultiSourceTimeline(project, settings) ==
  /\ sourceRefOf(settings).kind = "timeline"
  /\ Cardinality(clipSourceIds(project.clips)) > 1

\* C12: a multi-source whole-timeline job never has the encoder invoked, and
\* once its start has run it is 'failed' with error 'unsupported_timeline'.
C12_MultiSourceUnsupported ==
  \A id \in Ids :
    MultiSourceTimeline(Inputs[job[id].inp].project, Inputs[job[id].inp].settings)
    => /\ command[id] = "none"
       /\ Started(id) => /\ job[id].status = "failed"
                          /\ job[id].error = "unsupported_timeline"

C12_Witness ==
  \E id \in JOBS :
    /\ MultiSourceTimeline(Inputs[job[id].inp].project, Inputs[job[id].inp].settings)
    /\ job[id].error = "unsupported_timeline"
    /\ \E other \in Ids : other < id /\ command[other] = "writing"

\* C13: when the handling of an event that moves a job to a terminal state
\* has finished, the queue is empty or at least MAX_CONCURRENT_JOBS jobs are
\* running.
C13_NoIdleSlot ==
  [][ (\E id \in DOMAIN job : /\ job[id].status \notin TerminalStatuses
                              /\ job'[id].status \in TerminalStatuses)
      => \/ QUEUE' = << >>
         \/ Cardinality(RUNNING_JOBS') >= MAX_CONCURRENT_JOBS ]_vars

\* the queue was full (a later submission was rejected); the first queued job
\* has been started by the handler of a terminal event and the next one is
\* still waiting
C13_Witness ==
  LET r == MAX_CONCURRENT_JOBS + MAX_QUEUE_LENGTH + 1
  IN /\ r \in Ids /\ job[r].error = "over_capacity"
     /\ QUEUE /= << >>
     /\ \E id \in RUNNING_JOBS :
          /\ id > MAX_CONCURRENT_JOBS /\ id < Head(QUEUE)
          /\ job[id].status = "rendering"
          /\ \A k \in 1..(id - 1) : job[k].status \in TerminalStatuses

\* C14: provided every started encode emits its terminal event, every
\* submitted job eventually reaches a terminal status.
C14_EveryJobTerminates ==
  \A id \in 1..MaxLiveJobs :
    (id \in Ids) ~> (id \in Ids /\ job[id].status \in TerminalStatuses)

\* C15: a progress callback for a job whose record has been removed kills the
\* encoder and changes nothing in the job store: no progress update, no
\* record re-created, queue, running set and files untouched.
C15_ProgressOnRemovedRecordKills ==
  [][ \A id \in DOMAIN command : \A percent \in PctValues :
        (id \notin JOBS /\ EncoderProgress(id, percent))
        => /\ command'[id] = "killed"
           /\ UNCHANGED <<job, JOBS, RUNNING_JOBS, QUEUE, immediates, files>> ]_vars

C15_Witness ==
  \E id \in Ids :
    command[id] = "killed" /\ id \notin JOBS /\ job[id].status = "rendering"

\* C16: a job whose encode was killed because its record was removed is
\* abandoned.  While the kill is pending and after it, the job is never put
\* on the queue or among the pending starts, never gets a record again, is
\* never restarted and never becomes 'complete'; when the termination has
\* been handled its output file does not exist and its slot is free, so that
\* the queue is empty or MAX_CONCURRENT_JOBS jobs are running; and nothing of
\* this changes afterwards.
C16_KilledJobAbandoned ==
  [][ \A id \in DOMAIN command :
        LET gone == /\ id \notin Range(QUEUE') /\ id \notin Range(immediates')
                    /\ id \notin JOBS'
                    /\ job'[id].status /= "complete"
            reaped == /\ command'[id] = "done"
                      /\ id \notin files'
                      /\ id \notin RUNNING_JOBS'
        IN /\ command[id] = "killed"
              => /\ gone
                 /\ command'[id] \in {"killed", "done"}
                 /\ command'[id] = "done"
                    => /\ reaped
                       /\ \/ QUEUE' = << >>
                          \/ Cardinality(RUNNING_JOBS') >= MAX_CONCURRENT_JOBS
           /\ (command[id] = "done" /\ id \notin JOBS /\ job[id].status = "failed")
              => gone /\ reaped /\ job'[id].status = "failed" ]_vars

\* an encode has been killed while its output file is on disk and a job is
\* waiting in the queue
C16_Witness ==
  \E id \in RUNNING_JOBS :
    command[id] = "killed" /\ id \in files /\ QUEUE /= << >>

\* C17: for every well-formed project and settings, absent fields, zero or
\* negative scale and fps, empty clip lists and reversed ranges included,
\* deriveRenderParams returns, and what it returns has width > 0, height > 0,
\* fps > 0 and durationSeconds > 0.
C17_DerivedParamsPositive ==
  (call.fn = "deriveRenderParams" /\ Some(ret))
  => /\ Val(ret).width > 0
     /\ Val(ret).height > 0
     /\ Val(ret).fps > 0
     /\ Val(ret).durationSeconds.num > 0 /\ Val(ret).durationSeconds.den > 0

\* a zero scale, a non-positive overriding fps and a reversed explicit range
\* come back as the minimum side, the default fps and a positive duration
C17_Witness ==
  /\ call.fn = "deriveRenderParams" /\ Some(ret)
  /\ call.settings.renderResolutionScale = <<[n |-> 0, d |-> 1]>>
  /\ call.settings.fps = <<-30>> /\ call.project.tfps = <<0>>
  /\ Some(call.settings.source) /\ Val(call.settings.source).outFrame = <<2>>
  /\ Val(ret).width = 16 /\ Val(ret).fps = 24
  /\ Val(ret).durationSeconds = [num |-> 1, den |-> 10]

\* a timeline-kind selector that carries both ends of a range
ExplicitRange(settings) ==
  /\ Some(settings.source) /\ Val(settings.source).kind = "timeline"
  /\ Some(Val(settings.source).inFrame) /\ Some(Val(settings.source).outFrame)
InFrame(settings) == Val(Val(settings.source).inFrame)
OutFrame(settings) == Val(Val(settings.source).outFrame)

\* C18: for a timeline-kind selector with numeric inFrame <= outFrame,
\* computeDurationFrames returns exactly outFrame - inFrame + 1 whatever the
\* project's clips and sources are; frames 0..239 are 240 frames, which
\* deriveRenderParams turns into 10 seconds at 24 fps.
C18_ExplicitRangeInclusive ==
  /\ (call.fn = "computeDurationFrames" /\ Some(ret) /\ ExplicitRange(call.settings)
        /\ InFrame(call.settings) <= OutFrame(call.settings))
     => Val(ret) = OutFrame(call.settings) - InFrame(call.settings) + 1
  /\ (call.fn = "deriveRenderParams" /\ Some(ret) /\ ExplicitRange(call.settings)
        /\ InFrame(call.settings) = 0 /\ OutFrame(call.settings) = 239
        /\ Val(ret).fps = 24)
     => Val(ret).durationSeconds.num = 10 * Val(ret).durationSeconds.den

C18_Witness ==
  /\ call.fn = "computeDurationFrames" /\ Some(ret) /\ ExplicitRange(call.settings)
  /\ InFrame(call.settings) = 0 /\ OutFrame(call.settings) = 239
  /\ call.project.clips = <<ClipA>>
  /\ Val(ret) = 240

\* C19: for a timeline-kind selector with inFrame > outFrame,
\* computeDurationFrames returns the one-second default: as many frames as
\* the project fps (timeline fps, else settings fps, else 24).
C19_ReversedRangeIsOneSecond ==
  (call.fn = "computeDurationFrames" /\ Some(ret) /\ ExplicitRange(call.settings)
     /\ InFrame(call.settings) > OutFrame(call.settings))
  => Val(ret) = ensureMinFrames(projectFpsOf(call.project))

\* the candidates of a source with hash h1 and name a.mov, in the fixed order
HashedOrder(container) ==
  (IF container = << >> THEN << >> ELSE << <<"h","1",".">> \o container >>)
    \o << <<"h","1",".","m","p","4">>, <<"h","1",".","m","o","v">>,
          <<"h","1",".","m","k","v">>, <<"h","1",".","w","e","b","m">>, <<"h","1">> >>
FixedOrder(sourceRef, container) ==
  (IF Val(sourceRef).hash = << >> THEN << >> ELSE HashedOrder(container))
    \o (IF Val(sourceRef).originalName = << >> THEN << >> ELSE << <<"a",".","m","o","v">> >>)
Usable(disk, path) == path \in DOMAIN disk /\ disk[path] > 0

\* C20: whatever subset of the candidate files is on disk,
\* resolveMediaPathForSource returns the first candidate of the fixed order
\* that exists and is not empty, and none when there is no such candidate;
\* with h1.mp4 and h1.mov both usable and container mp4 it returns h1.mp4.
C20_FirstUsableCandidate ==
  (call.fn = "resolveMediaPathForSource" /\ Some(ret) /\ Some(call.sourceRef))
  => LET order == FixedOrder(call.sourceRef, call.container)
         found == Val(ret)
     IN /\ (found = << >>) <=> (\A i \in DOMAIN order : ~Usable(call.disk, order[i]))
        /\ Some(found) =>
             \E i \in DOMAIN order :
               /\ order[i] = Val(found) /\ Usable(call.disk, order[i])
               /\ \A k \in 1..(i - 1) : ~Usable(call.disk, order[k])
        /\ (/\ call.sourceRef = <<SourceA>> /\ call.container = <<"m","p","4">>
            /\ Usable(call.disk, <<"h","1",".","m","p","4">>)
            /\ Usable(call.disk, <<"h","1",".","m","o","v">>))
           => found = << <<"h","1",".","m","p","4">> >>

\* h1.mp4 is on disk and empty, h1.mov is usable and comes back
C20_Witness ==
  /\ call.fn = "resolveMediaPathForSource" /\ Some(ret)
  /\ call.sourceRef = <<SourceA>> /\ call.container = <<"m","p","4">>
  /\ <<"h","1",".","m","p","4">> \in DOMAIN call.disk
  /\ call.disk[<<"h","1",".","m","p","4">>] = 0
  /\ Usable(call.disk, <<"h","1",".","m","o","v">>)
  /\ Val(ret) = << <<"h","1",".","m","o","v">> >>

\* a source object that carries both ends of a range
SecondsRange(settings) ==
  /\ settings /= << >> /\ Some(settings.source)
  /\ Some(Val(settings.source).inFrame) /\ Some(Val(settings.source).outFrame)

\* C21: with a positive fps and a source with inFrame <= outFrame,
\* computeDurationSeconds returns (outFrame - inFrame + 1) / fps clamped into
\* [0.5, 60]: frames 0..239 at 24 fps give 10, frames 0..5000 at 24 fps 60.
C21_RangeSecondsClamped ==
  (/\ call.fn = "computeDurationSeconds" /\ Some(ret) /\ SecondsRange(call.settings)
   /\ Some(call.settings.fps) /\ Val(call.settings.fps) > 0
   /\ InFrame(call.settings) <= OutFrame(call.settings))
  => LET fps == Val(call.settings.fps)
         n == OutFrame(call.settings) - InFrame(call.settings) + 1
         d == Val(ret)
     IN /\ d.den > 0
        /\ 2 * n < fps => d.num * 2 = d.den
        /\ n > 60 * fps => d.num = 60 * d.den
        /\ (2 * n >= fps /\ n <= 60 * fps) => d.num * fps = n * d.den
        /\ (fps = 24 /\ InFrame(call.settings) = 0 /\ OutFrame(call.settings) = 239)
             => d.num = 10 * d.den
        /\ (fps = 24 /\ InFrame(call.settings) = 0 /\ OutFrame(call.settings) = 5000)
             => d.num = 60 * d.den

\* one frame at 30 fps is raised to half a second
C21_Witness ==
  /\ call.fn = "computeDurationSeconds" /\ Some(ret) /\ SecondsRange(call.settings)
  /\ call.settings.fps = <<30>>
  /\ InFrame(call.settings) = 2 /\ OutFrame(call.settings) = 2
  /\ Val(ret) = [num |-> 1, den |-> 2]

\* C22: without a source, without both ends of a range, or with
\* outFrame < inFrame, computeDurationSeconds returns 5 seconds whatever the
\* fps is; and what it returns is always positive.
C22_DefaultFiveSeconds ==
  (call.fn = "computeDurationSeconds" /\ Some(ret))
  => /\ Val(ret).num > 0 /\ Val(ret).den > 0
     /\ (\/ call.settings = << >>
         \/ ~SecondsRange(call.settings)
         \/ OutFrame(call.settings) < InFrame(call.settings))
        => Val(ret).num = 5 * Val(ret).den

\* frames 10..5 at a negative fps
C22_Witness ==
  /\ call.fn = "computeDurationSeconds" /\ Some(ret) /\ SecondsRange(call.settings)
  /\ call.settings.fps = <<-24>>
  /\ InFrame(call.settings) = 10 /\ OutFrame(call.settings) = 5
  /\ Val(ret) = [num |-> 5, den |-> 1]

\* of these file names, those that start with the hash
StoredFor(names, hash) ==
  {n \in names : Len(n) >= Len(hash) /\ SubSeq(n, 1, Len(hash)) = hash}
\* the stored files, without the temporary ones
Stored(store) ==
  {n \in DOMAIN store : \A k \in 1..MaxUploads + 1 : n /= UploadName(k)}

\* C23: once an upload of content with hash H has succeeded, a further upload
\* of the same content and hash, whatever name and MIME type come with it, is
\* answered 'cached', leaves the stored files as they were, with exactly one
\* file for H, and its temporary file is removed.
C23_UploadIdempotent ==
  [][\A u \in DOMAIN uploads :
       (/\ uploads[u].state = "hashing" /\ uploads'[u].state = "done"
        /\ uploads'[u].code /= 500
        /\ Val(uploads[u].req.file) = uploads[u].req.hash
        /\ \E v \in uploads[u].prior :
             /\ uploads[v].code \in {200, 201}
             /\ uploads[v].req.hash = uploads[u].req.hash)
       => /\ uploads'[u].code = 200 /\ uploads'[u].cached
          /\ Stored(media') = Stored(media)
          /\ \A n \in Stored(media) : media'[n] = media[n]
          /\ Cardinality(StoredFor(Stored(media'), uploads[u].req.hash)) = 1
          /\ Val(uploads[u].temp) \notin DOMAIN media']_vars

\* the request body of a job
InputOf(id) == Inputs[job[id].inp]
\* the job is started in this step
StartedNow(id) == job[id].status = "queued" /\ job'[id].status /= "queued"
\* what the start finds for a request body
MediaFound(in) ==
  LET primarySource == resolvePrimarySource(in.project, in.settings)
  IN /\ Some(primarySource)
     /\ Some(resolveMediaPathForSource(MediaDisk, primarySource, containerOf(in.settings)))
OverHardCeiling(in) ==
  LET p == deriveRenderParams(in.project, in.settings)
  IN \/ p.width > EXTREME_MAX_DIMENSION \/ p.height > EXTREME_MAX_DIMENSION
     \/ p.durationSeconds.num > EXTREME_MAX_DURATION_SECONDS * p.durationSeconds.den
OverSoftLimit(in) ==
  LET p == deriveRenderParams(in.project, in.settings)
  IN \/ p.width > SOFT_MAX_WIDTH \/ p.height > SOFT_MAX_HEIGHT
     \/ p.durationSeconds.num > SOFT_MAX_DURATION_SECONDS * p.durationSeconds.den
\* the request bodies whose start comes to the media lookup and finds nothing,
\* and those whose start comes to the size check
SimpleInputs ==
  {i \in DOMAIN Inputs : isSimpleTimeline(Inputs[i].project, Inputs[i].settings)}
MultiSourceInputs ==
  {i \in DOMAIN Inputs : MultiSourceTimeline(Inputs[i].project, Inputs[i].settings)}
FoundInputs == {i \in DOMAIN Inputs : MediaFound(Inputs[i])}
LargeInputs == {i \in DOMAIN Inputs : OverHardCeiling(Inputs[i])}
MediaMissingInputs == SimpleInputs \ FoundInputs
SizeCheckedInputs == SimpleInputs \cap FoundInputs
OverHardCeilingInputs == SizeCheckedInputs \cap LargeInputs

\* C24: when the start of a job comes to look up its media (its timeline is
\* one the service supports) and the primary source cannot be resolved or no
\* existing non-empty file is found for it, the job is 'failed' with error
\* 'media_missing', no encoder is ever invoked for it, it holds no running
\* slot, and the queue is empty or the limit of running jobs is reached again.
C24_MediaMissingFailsFast ==
  [][\A id \in DOMAIN job :
       job[id].inp \in MediaMissingInputs
       => /\ command'[id] = "none"
          /\ StartedNow(id)
             => /\ job'[id].status = "failed" /\ job'[id].error = "media_missing"
                /\ id \notin RUNNING_JOBS'
                /\ \/ QUEUE' = << >>
                   \/ Cardinality(RUNNING_JOBS') >= MAX_CONCURRENT_JOBS]_vars

\* the second job, whose source has no file, has failed on its start and the
\* job queued behind it is encoding
C24_Witness ==
  /\ Len(job) = 3
  /\ job[1].status \in TerminalStatuses /\ command[1] = "done"
  /\ job[2].inp = 3 /\ job[2].status = "failed" /\ job[2].error = "media_missing"
  /\ command[2] = "none"
  /\ RUNNING_JOBS = {3} /\ command[3] = "writing"

\* C25: when the start of a job comes to check its size (timeline supported,
\* media found), a derived width or height above 8192 or a derived duration
\* above 3600 s makes it 'failed' with error 'job_too_large' without an
\* encoder; otherwise it is encoded, also above 3840x2160 or 600 s.
C25_HardCeilingOnly ==
  [][\A id \in DOMAIN job :
       job[id].inp \in SizeCheckedInputs
       => IF job[id].inp \in OverHardCeilingInputs
          THEN /\ command'[id] = "none"
               /\ StartedNow(id) => /\ job'[id].status = "failed"
                                     /\ job'[id].error = "job_too_large"
          ELSE StartedNow(id) => /\ job'[id].status = "rendering"
                                 /\ command'[id] = "spawned"]_vars

\* a job of one frame more than an hour has failed, a job of 4480x2520 and
\* exactly an hour is being encoded
C25_Witness ==
  \E big, soft \in Ids :
    /\ job[big].inp = 7 /\ job[big].error = "job_too_large" /\ command[big] = "none"
    /\ job[soft].inp = 8 /\ OverSoftLimit(InputOf(soft)) /\ ~OverHardCeiling(InputOf(soft))
    /\ job[soft].status = "rendering" /\ command[soft] = "writing"

\* C26: the error code of a job is the one of the first check that fails, in
\* the order timeline, media, size: multi-source with missing media is
\* 'unsupported_timeline'; missing media over the hard ceiling is
\* 'media_missing'; 'job_too_large' only when the two earlier checks pass.
C26_FirstFailingCheckDecides ==
  \A id \in Ids :
    Started(id) =>
      LET simple == job[id].inp \in SimpleInputs
          found == job[id].inp \in FoundInputs
          large == job[id].inp \in LargeInputs
          error == job[id].error
      IN /\ ~simple => error = "unsupported_timeline"
         /\ (simple /\ ~found) => error = "media_missing"
         /\ (simple /\ found /\ large) => error = "job_too_large"
         /\ (job[id].inp \in MultiSourceInputs /\ ~found)
              => error = "unsupported_timeline"
         /\ error = "job_too_large" => (simple /\ found)
         /\ error = "media_missing" => simple

\* a multi-source job over the ceiling and a job without media over the
\* ceiling have both failed
C26_Witness ==
  \E a, b \in Ids :
    /\ job[a].inp = 5 /\ OverHardCeiling(InputOf(a)) /\ ~MediaFound(InputOf(a))
    /\ job[a].error = "unsupported_timeline"
    /\ job[b].inp = 6 /\ OverHardCeiling(InputOf(b))
    /\ job[b].error = "media_missing"

\* Math.round of a value given in tenths
RoundTenths(t) == CHOOSE k \in -200..200 : 10 * k - 5 <= t /\ t < 10 * k + 5

\* C27: a progress callback with a percentage sets job.progress to
\* max(previous, min(100, round(percent))): a value below the recorded one
\* changes nothing, and progress stays within [0, 100] for negative values
\* and values above 100 too. Stated of the handler's result in every state
\* in which the encoder of a recorded job may report.
C27_ProgressMaxClamped ==
  \A id \in JOBS : \A percent \in FinePctValues \ {<< >>} :
    (id \in DOMAIN command /\ command[id] = "writing")
    => LET reported == RoundTenths(Val(percent))
           before == job[id].progress
           after == onProgress(Store, id, percent).job[id].progress
       IN /\ after = (IF reported > 100 THEN Max2(before, 100)
                      ELSE IF reported > before THEN reported ELSE before)
          /\ reported < before => after = before
          /\ 0 <= before /\ before <= 100
          /\ 0 <= after /\ after <= 100

\* 70.4 was reported to a job whose progress was 31 or less
C27_Witness ==
  \E id \in JOBS : job[id].progress = 70 /\ command[id] = "writing"

\* C28: in the runExport adapter job.progress never decreases, across any
\* sequence of progress callbacks and across the retry with h264 after an
\* h265 failure.
C28_AdapterProgressNeverDecreases == [][render'.progress >= render.progress]_vars

\* the call is computeDurationFrames with a timeline-kind selector (or none)
\* that does not give both ends of a range
TimelineWithoutRange ==
  /\ call.fn = "computeDurationFrames"
  /\ \/ call.settings.source = << >>
     \/ /\ Val(call.settings.source).kind = "timeline"
        /\ ~(Some(Val(call.settings.source).inFrame)
               /\ Some(Val(call.settings.source).outFrame))
\* where the clips of the called project start and end on the timeline
ClipStarts == {call.project.clips[i].timelineStartFrame : i \in DOMAIN call.project.clips}
ClipEnds ==
  {call.project.clips[i].timelineStartFrame
     + call.project.clips[i].endFrame - call.project.clips[i].startFrame :
   i \in DOMAIN call.project.clips}

\* C29: for a timeline-kind selector without an explicit range,
\* computeDurationFrames returns the union span of the clips, latest clip end
\* minus earliest clip start plus 1, when the timeline has a clip, and the
\* project fps (timeline fps, else settings fps, else 24) when it has none;
\* a span or fps below 1 comes out as 1 frame.
C29_TimelineUnionSpan ==
  (TimelineWithoutRange /\ Some(ret))
  => IF call.project.clips /= << >>
     THEN \E first \in ClipStarts, last \in ClipEnds :
            /\ \A t \in ClipStarts : first <= t
            /\ \A t \in ClipEnds : t <= last
            /\ Val(ret) = (IF last - first + 1 >= 1 THEN last - first + 1 ELSE 1)
     ELSE LET fps == IF Some(call.project.tfps) THEN Val(call.project.tfps)
                     ELSE IF Some(call.project.sfps) THEN Val(call.project.sfps)
                     ELSE 24
          IN Val(ret) = (IF fps >= 1 THEN fps ELSE 1)

\* clips c2 (timeline frames 48..71) and c1 (0..47), in this order, span 72
\* frames
C29_Witness ==
  /\ TimelineWithoutRange /\ Some(ret)
  /\ call.project.clips = <<ClipB, ClipA>> /\ Val(ret) = 72

\* C30: computeDurationFrames returns an integer of at least 1 for every
\* selector kind and every input: reversed ranges and clips, sources with
\* zero or negative durations, unknown or empty clip and source ids, zero or
\* negative project fps.
C30_AtLeastOneFrame ==
  (call.fn = "computeDurationFrames" /\ Some(ret)) => (Val(ret) \in Nat /\ Val(ret) >= 1)

\* the selected clip c3 runs from frame 30 back to frame 10 and the project
\* fps is 0: one frame
C30_Witness ==
  /\ call.fn = "computeDurationFrames" /\ Some(ret)
  /\ call.settings.source = <<[TimelineSelector EXCEPT !.kind = "clip", !.clipId = "c3"]>>
  /\ call.project.clips = <<ClipReversed, ClipB>>
  /\ call.project.tfps = <<0>>
  /\ Val(ret) = 1

\* C31: deriveRenderParams never returns a width, height or fps above the
\* configured maxima, so that a derived result cannot exceed the hard
\* ceiling through geometry alone.
C31_DerivedParamsClamped ==
  (call.fn = "deriveRenderParams" /\ Some(ret))
  => /\ Val(ret).width <= MAX_WIDTH /\ Val(ret).width <= EXTREME_MAX_DIMENSION
     /\ Val(ret).height <= MAX_HEIGHT /\ Val(ret).height <= EXTREME_MAX_DIMENSION
     /\ Val(ret).fps <= MAX_FPS

\* the selector of the call, and the clips and sources of its project
Selector == sourceRefOf(call.settings)
ClipsOf == {call.project.clips[i] : i \in DOMAIN call.project.clips}
SourcesOf == {call.project.sources[i] : i \in DOMAIN call.project.sources}
Resolved == call.fn = "resolvePrimarySource" /\ Some(ret)

\* C32: for a timeline-kind selector, resolvePrimarySource returns a source
\* if and only if the timeline has a clip, every clip carries the same single
\* source id and that id names a source of the project, and then it returns
\* that source; with clips of two or more source ids it returns not-found.
C32_TimelineSingleSource ==
  (Resolved /\ Selector.kind = "timeline")
  => /\ Some(Val(ret))
        <=> /\ ClipsOf /= {}
            /\ \E s \in SourcesOf : \A c \in ClipsOf : c.sourceId = s.id
     /\ Some(Val(ret)) => \A c \in ClipsOf : c.sourceId = Val(Val(ret)).id
     /\ Cardinality({c.sourceId : c \in ClipsOf}) >= 2 => ~Some(Val(ret))

\* C39: a source-kind selector with a missing or unknown sourceId and a
\* clip-kind selector with a missing or unknown clipId yield not-found,
\* whatever the timeline's clips are.
C39_NoFallThroughToTimeline ==
  /\ (Resolved /\ Selector.kind = "source"
        /\ \A s \in SourcesOf : s.id /= Selector.sourceId)
     => ~Some(Val(ret))
  /\ (Resolved /\ Selector.kind = "clip"
        /\ \A c \in ClipsOf : c.id /= Selector.clipId)
     => ~Some(Val(ret))

\* the request bodies that export the whole timeline, and those among them
\* whose clips all reference one source
WholeTimelineInputs ==
  {i \in DOMAIN Inputs : sourceRefOf(Inputs[i].settings).kind = "timeline"}
SingleSourceInputs ==
  {i \in WholeTimelineInputs :
     /\ Inputs[i].project.clips /= << >>
     /\ \A k \in DOMAIN Inputs[i].project.clips :
          Inputs[i].project.clips[k].sourceId = Inputs[i].project.clips[1].sourceId}

\* C33: a job fails with 'unsupported_timeline' only when it exports the
\* whole timeline and its clips reference more than one source; a
\* whole-timeline export whose clips all reference one source is never
\* rejected as 'unsupported_timeline', wherever the clips are placed.
C33_UnsupportedOnlyMultiSource ==
  \A id \in Ids :
    /\ job[id].error = "unsupported_timeline" => job[id].inp \in MultiSourceInputs
    /\ job[id].inp \in SingleSourceInputs => job[id].error /= "unsupported_timeline"

\* the derived geometry of the call differs from the project's configured one
GeometryDiffers ==
  LET p == deriveRenderParams(call.project, call.settings)
  IN \/ call.project.width = << >> \/ call.project.height = << >>
     \/ Val(call.project.width) /= p.width \/ Val(call.project.height) /= p.height

\* C34: the encoder is given a scale filter only when the derived width or
\* height differs from the project's configured one or the output-resolution
\* mode is 'custom'; a job without custom resolution and without scale
\* factor whose derived geometry equals the project's gets no scale filter.
C34_ScaleOnlyWhenNeeded ==
  (call.fn = "needsScale" /\ Some(ret))
  => /\ Val(ret) => (GeometryDiffers \/ call.settings.outputResolution = "custom")
     /\ (/\ call.settings.outputResolution /= "custom"
         /\ call.settings.renderResolutionScale = << >>
         /\ ~GeometryDiffers)
        => ~Val(ret)

\* C35 as stated: the debug array never holds more than 50 entries.
C35_AtMostFifty == Len(debug) <= 50

\* C35, amended: the debug array never holds more than 51 entries; an append
\* to an array of 51 removes exactly its oldest entry and keeps the others
\* in insertion order, an append to a shorter array removes nothing.
C35_AtMostFiftyOne ==
  [][debug' /= debug
       => /\ Len(debug') <= 51
          /\ SubSeq(debug', 1, Len(debug') - 1)
               = (IF Len(debug) = 51 THEN Tail(debug) ELSE debug)
          /\ \A i \in 1..(Len(debug') - 1) : debug'[i].ts < debug'[i + 1].ts]_vars

\* 53 appends were made: the array holds the 51 entries from the third on
C35_Witness == Len(debug) = 51 /\ debug[1].ts = 3 /\ debug[51].ts = 53

\* the output containers a job may request, and none
OutputContainers ==
  {<< >>, <<"m","p","4">>, <<"m","o","v">>, <<"w","e","b","m">>, <<"m","k","v">>}
\* the upload was answered with the path of a stored file
StoredOk(u) == uploads[u].state = "done" /\ uploads[u].code \in {200, 201}

\* C36: every file the upload route has stored for hash H with original
\* name N is found by resolveMediaPathForSource for a source with hash H and
\* original name N, for every output container and every extension of N.
C36_UploadedIsResolvable ==
  \A u \in DOMAIN uploads :
    StoredOk(u)
    => \A container \in OutputContainers :
         Some(resolveMediaPathForSource(
                media,
                <<[SourceA EXCEPT !.hash = uploads[u].req.hash,
                                  !.originalName = uploads[u].req.originalName]>>,
                container))

\* the jobs of the counting scheduler whose encoder was started and has not
\* terminated
Unfinished == {id \in DOMAIN counter.jobs : counter.jobs[id].encoder \in {"running", "killed"}}

\* C37: in the counting scheduler, between any two handlers, activeRenders
\* is the number of started jobs that have not finished, it never exceeds
\* MAX_CONCURRENT_FFMPEG, and no job is started twice.
C37_CounterMatchesRenders ==
  /\ counter.activeRenders = Cardinality(Unfinished)
  /\ counter.activeRenders <= MAX_CONCURRENT_FFMPEG
  /\ \A id \in DOMAIN counter.jobs : counter.jobs[id].starts <= 1

\* two encoders run, a job over the ceiling has failed without encoder in
\* between, and a fourth job waits
C37_Witness ==
  /\ Len(counter.jobs) = 4
  /\ counter.activeRenders = 2 /\ Cardinality(Unfinished) = 2
  /\ \E id \in DOMAIN counter.jobs :
       counter.jobs[id].error = "job_too_large" /\ counter.jobs[id].starts = 1
  /\ \E id \in DOMAIN counter.jobs :
       counter.jobs[id].status = "queued" /\ counter.immediates = 0

\* C38: in the queue-based scheduler, between handlers, a job id is in
\* RUNNING_JOBS exactly when the job's status is 'rendering', and every id in
\* RUNNING_JOBS has a record in JOBS.
C38_RunningSetMatchesStatus ==
  /\ \A id \in Ids : id \in RUNNING_JOBS <=> job[id].status = "rendering"
  /\ RUNNING_JOBS \subseteq Ids
  /\ RUNNING_JOBS \subseteq JOBS

====
